---- MODULE Spec2Model ----
(***************************************************************************)
(* QueryPath temporal-expression resolver: the date calculator             *)
(* (src/mcp/date_calculator.py), the date tools                            *)
(* (src/mcp/tools/datetimetool/process_date.py), the MCP tool dispatcher   *)
(* (src/mcp/date_mcp_server.py) and the client routing                     *)
(* (src/mcp/date_client.py), as a state machine over the system date.      *)
(***************************************************************************)
EXTENDS Integers, Sequences, FiniteSets, TLC

VARIABLES today, pc, call, result, pending, prev, log

vars == <<today, pc, call, result, pending, prev, log>>

(***************************************************************************)
(* datetime.date, datetime.timedelta, calendar.monthrange and              *)
(* dateutil.relativedelta, as the standard library computes them.  A date  *)
(* is a record [year, month, day]; a raised exception is a record          *)
(* [exc, msg] that every later operation passes on unchanged.              *)
(***************************************************************************)
Raise(type, msg) == [exc |-> type, msg |-> msg]

IsExc(v) == "exc" \in DOMAIN v

IsLeap(y) == y % 4 = 0 /\ (y % 100 # 0 \/ y % 400 = 0)

\* calendar.monthrange(year, month)[1]
monthrange(y, m) ==
    CASE m = 2 -> IF IsLeap(y) THEN 29 ELSE 28
      [] m \in {4, 6, 9, 11} -> 30
      [] OTHER -> 31

DaysBeforeYear(y) ==
    (y - 1) * 365 + (y - 1) \div 4 - (y - 1) \div 100 + (y - 1) \div 400

RECURSIVE DaysBeforeMonth(_, _)
DaysBeforeMonth(y, m) ==
    IF m <= 1 THEN 0 ELSE DaysBeforeMonth(y, m - 1) + monthrange(y, m - 1)

\* date.toordinal(): 0001-01-01 is day 1
ToOrdinal(d) == DaysBeforeYear(d.year) + DaysBeforeMonth(d.year, d.month) + d.day

\* date.fromordinal(n), by the 400/100/4/1-year cycles
FromOrdinal(n) ==
    LET n0   == n - 1
        n400 == n0 \div 146097
        r400 == n0 % 146097
        n100 == r400 \div 36524
        r100 == r400 % 36524
        n4   == r100 \div 1461
        r4   == r100 % 1461
        n1   == r4 \div 365
        r1   == r4 % 365
        y    == n400 * 400 + n100 * 100 + n4 * 4 + n1 + 1
    IN  IF n1 = 4 \/ n100 = 4
        THEN [year |-> y - 1, month |-> 12, day |-> 31]
        ELSE LET m == CHOOSE k \in 1..12 :
                          /\ DaysBeforeMonth(y, k) <= r1
                          /\ r1 < DaysBeforeMonth(y, k) + monthrange(y, k)
             IN  [year |-> y, month |-> m, day |-> r1 - DaysBeforeMonth(y, m) + 1]

\* datetime.date(year, month, day): ValueError outside the calendar
Date(y, m, d) ==
    IF y < 1 \/ y > 9999 THEN Raise("ValueError", "year is out of range")
    ELSE IF m < 1 \/ m > 12 THEN Raise("ValueError", "month must be in 1..12")
    ELSE IF d < 1 \/ d > monthrange(y, m)
         THEN Raise("ValueError", "day is out of range for month")
    ELSE [year |-> y, month |-> m, day |-> d]

\* date.weekday(): Monday is 0
weekday(d) == (ToOrdinal(d) + 6) % 7

\* date + datetime.timedelta(days=k): OverflowError outside the calendar
AddDays(d, k) ==
    IF IsExc(d) THEN d
    ELSE LET n == ToOrdinal(d) + k
         IN  IF n < 1 \/ n > 3652059
             THEN Raise("OverflowError", "date value out of range")
             ELSE FromOrdinal(n)

\* date.replace(day=k)
ReplaceDay(d, k) == IF IsExc(d) THEN d ELSE Date(d.year, d.month, k)

\* date + relativedelta(months=k): relativedelta keeps |months| <= 11 and
\* carries the rest into years (truncating toward zero), adds both, wraps the
\* month into 1..12 and cuts the day to the length of the target month.
AddMonths(d, k) ==
    IF IsExc(d) THEN d
    ELSE LET s  == IF k < 0 THEN -1 ELSE 1
             a  == s * k
             ys == s * (a \div 12)
             ms == s * (a % 12)
             m0 == d.month + ms
             y  == d.year + ys + (IF m0 > 12 THEN 1 ELSE IF m0 < 1 THEN -1 ELSE 0)
             m  == IF m0 > 12 THEN m0 - 12 ELSE IF m0 < 1 THEN m0 + 12 ELSE m0
         IN  IF y < 1 \/ y > 9999
             THEN Raise("ValueError", "year is out of range")
             ELSE LET dim == monthrange(y, m)
                  IN  [year |-> y, month |-> m,
                       day |-> IF d.day > dim THEN dim ELSE d.day]

\* date + relativedelta(years=k)
AddYears(d, k) ==
    IF IsExc(d) THEN d
    ELSE LET y == d.year + k
         IN  IF y < 1 \/ y > 9999
             THEN Raise("ValueError", "year is out of range")
             ELSE LET dim == monthrange(y, d.month)
                  IN  [year |-> y, month |-> d.month,
                       day |-> IF d.day > dim THEN dim ELSE d.day]

\* dict.get(key, default)
DictGet(dict, key, default) == IF key \in DOMAIN dict THEN dict[key] ELSE default

\* str.lower() on the tokens the callers send
Lower(s) ==
    CASE s = "FEB" -> "feb"
      [] s = "March" -> "march"
      [] s = "Monday" -> "monday"
      [] s = "Thursday" -> "thursday"
      [] s = "SUNDAY" -> "sunday"
      [] OTHER -> s

\* int(str): the decimal literals among the tokens, ValueError for the rest
IntLiterals ==
    ("-3" :> -3) @@ ("0" :> 0) @@ ("1" :> 1) @@ ("15" :> 15) @@ ("28" :> 28)
    @@ ("29" :> 29) @@ ("30" :> 30) @@ ("31" :> 31) @@ ("45" :> 45)
    @@ ("2" :> 2) @@ ("3" :> 3) @@ ("5" :> 5)

int(s) ==
    IF s \in DOMAIN IntLiterals THEN [val |-> IntLiterals[s]]
    ELSE Raise("ValueError", "invalid literal for int()")

\* date.strftime("%Y-%m-%d"): a text whose fields are year, month, day in
\* this order
strftime_Ymd(d) == [str |-> "date", fields |-> <<d.year, d.month, d.day>>]

\* f"Error: {str(e)}"
ErrorText(e) == [str |-> "Error", msg |-> e.msg]

(***************************************************************************)
(* src/mcp/date_calculator.py                                              *)
(***************************************************************************)
month_names ==
    [january |-> 1, jan |-> 1, february |-> 2, feb |-> 2, march |-> 3, mar |-> 3,
     april |-> 4, apr |-> 4, may |-> 5, june |-> 6, jun |-> 6, july |-> 7, jul |-> 7,
     august |-> 8, aug |-> 8, september |-> 9, sep |-> 9, october |-> 10, oct |-> 10,
     november |-> 11, nov |-> 11, december |-> 12, dec |-> 12]

weekday_names ==
    [monday |-> 0, tuesday |-> 1, wednesday |-> 2, thursday |-> 3,
     friday |-> 4, saturday |-> 5, sunday |-> 6]

\* ref_today with the week offset added as days (the factor 7 lost)
ref_today_weeks_as_days(t, offset_value, offset_unit) ==
    CASE offset_unit = "days" -> AddDays(t, offset_value)
      [] offset_unit = "weeks" -> AddDays(t, offset_value)
      [] offset_unit = "months" -> AddMonths(t, offset_value)
      [] offset_unit = "years" -> AddYears(t, offset_value)
      [] OTHER -> t

\* ref_today with the day of the month carried past the end of a shorter
\* target month (Jan 31 + 1 month = Mar 2)
ref_today_month_spill(t, offset_value, offset_unit) ==
    CASE offset_unit = "days" -> AddDays(t, offset_value)
      [] offset_unit = "weeks" -> AddDays(t, offset_value * 7)
      [] offset_unit = "months" -> AddDays(AddMonths(ReplaceDay(t, 1), offset_value), t.day - 1)
      [] offset_unit = "years" -> AddDays(AddYears(ReplaceDay(t, 1), offset_value), t.day - 1)
      [] OTHER -> t

\* reference == "today": the four units return inside the branch, any other
\* unit leaves it with base_date = today
ref_today(t, offset_value, offset_unit) ==
    CASE offset_unit = "days" -> AddDays(t, offset_value)
      [] offset_unit = "weeks" -> AddDays(t, offset_value * 7)
      [] offset_unit = "months" -> AddMonths(t, offset_value)
      [] offset_unit = "years" -> AddYears(t, offset_value)
      [] OTHER -> t

\* ref_start_of_week with "this" shifted by offset_value like "weeks"
ref_start_of_week_this_shifted(t, offset_value, offset_unit) ==
    LET days_since_monday == weekday(t)
        base_date == AddDays(t, -days_since_monday)
    IN  CASE offset_unit = "weeks" -> AddDays(base_date, 7 * offset_value)
          [] offset_unit = "this" -> AddDays(base_date, 7 * offset_value)
          [] OTHER -> base_date

\* reference == "start_of_week"
ref_start_of_week(t, offset_value, offset_unit) ==
    LET days_since_monday == weekday(t)
        base_date == AddDays(t, -days_since_monday)
    IN  CASE offset_unit = "weeks" -> AddDays(base_date, 7 * offset_value)
          [] offset_unit = "this" -> base_date
          [] OTHER -> base_date

\* reference == "start_of_month"
ref_start_of_month(t, offset_value, offset_unit) ==
    LET base_date == ReplaceDay(t, 1)
    IN  IF offset_unit = "months" THEN AddMonths(base_date, offset_value)
        ELSE base_date

\* reference == "start_of_year"
ref_start_of_year(t, offset_value, offset_unit) ==
    LET base_date == Date(t.year, 1, 1)
    IN  IF offset_unit = "years" THEN AddYears(base_date, offset_value)
        ELSE base_date

\* ref_specific_month with the month name looked up as sent, not lower-cased
ref_specific_month_case_sensitive(t, offset_value, offset_unit) ==
    LET month_num == DictGet(month_names, offset_unit, t.month)
        year == t.year + offset_value
    IN  Date(year, month_num, 1)

\* reference == "specific_month": offset_unit is the month name, offset_value
\* the year offset
ref_specific_month(t, offset_value, offset_unit) ==
    LET month_num == DictGet(month_names, Lower(offset_unit), t.month)
        year == t.year + offset_value
    IN  Date(year, month_num, 1)

\* ref_specific_weekday without the two "== 0 -> 7" corrections
ref_specific_weekday_same_day(t, offset_value, offset_unit) ==
    LET target_weekday == DictGet(weekday_names, Lower(offset_unit), 0)
        current_weekday == weekday(t)
    IN  IF offset_value < 0
        THEN AddDays(t, -((current_weekday - target_weekday) % 7))
        ELSE AddDays(t, (target_weekday - current_weekday) % 7)

\* ref_specific_weekday as a jump by whole weeks: the named weekday of the
\* week before or after the current one
ref_specific_weekday_week_jump(t, offset_value, offset_unit) ==
    LET target_weekday == DictGet(weekday_names, Lower(offset_unit), 0)
        monday == AddDays(t, -weekday(t))
    IN  IF offset_value < 0 THEN AddDays(monday, target_weekday - 7)
        ELSE AddDays(monday, target_weekday + 7)

\* ref_specific_weekday with the magnitude of offset_value counting
\* occurrences: value 2 is the occurrence after the next
ref_specific_weekday_by_magnitude(t, offset_value, offset_unit) ==
    LET target_weekday == DictGet(weekday_names, Lower(offset_unit), 0)
        current_weekday == weekday(t)
    IN  IF offset_value < 0
        THEN LET days_back == (current_weekday - target_weekday) % 7
             IN  AddDays(t, -(IF days_back = 0 THEN 7 ELSE days_back) + 7 * (offset_value + 1))
        ELSE LET days_forward == (target_weekday - current_weekday) % 7
             IN  AddDays(t, (IF days_forward = 0 THEN 7 ELSE days_forward)
                            + 7 * (IF offset_value = 0 THEN 0 ELSE offset_value - 1))

\* reference == "specific_weekday": offset_unit is the weekday name, the sign
\* of offset_value the direction
ref_specific_weekday(t, offset_value, offset_unit) ==
    LET target_weekday == DictGet(weekday_names, Lower(offset_unit), 0)
        current_weekday == weekday(t)
    IN  IF offset_value < 0
        THEN LET days_back == (current_weekday - target_weekday) % 7
             IN  AddDays(t, -(IF days_back = 0 THEN 7 ELSE days_back))
        ELSE LET days_forward == (target_weekday - current_weekday) % 7
             IN  AddDays(t, IF days_forward = 0 THEN 7 ELSE days_forward)

\* ref_specific_day_of_month without the "day_number > max_day" cut
ref_specific_day_of_month_unclamped(t, offset_value, offset_unit) ==
    LET parsed == int(offset_unit)
    IN  IF IsExc(parsed) THEN t
        ELSE LET target_month == AddMonths(ReplaceDay(t, 1), offset_value)
             IN  IF IsExc(target_month) THEN t
                 ELSE LET base_date == ReplaceDay(target_month, parsed.val)
                      IN  IF IsExc(base_date) THEN t ELSE base_date

\* ref_specific_day_of_month with a day number below 1 raised to day 1
ref_specific_day_of_month_floor_one(t, offset_value, offset_unit) ==
    LET parsed == int(offset_unit)
    IN  IF IsExc(parsed) THEN t
        ELSE LET target_month == AddMonths(ReplaceDay(t, 1), offset_value)
             IN  IF IsExc(target_month) THEN t
                 ELSE LET max_day == monthrange(target_month.year, target_month.month)
                          day_number == IF parsed.val > max_day THEN max_day
                                        ELSE IF parsed.val < 1 THEN 1 ELSE parsed.val
                      IN  ReplaceDay(target_month, day_number)

\* reference == "specific_day_of_month": offset_unit is the day number,
\* offset_value the month offset; a ValueError anywhere in the try block
\* gives today
ref_specific_day_of_month(t, offset_value, offset_unit) ==
    LET parsed == int(offset_unit)
    IN  IF IsExc(parsed) THEN t
        ELSE LET target_month == AddMonths(ReplaceDay(t, 1), offset_value)
             IN  IF IsExc(target_month) THEN t
                 ELSE LET max_day == monthrange(target_month.year, target_month.month)
                          day_number == IF parsed.val > max_day THEN max_day
                                        ELSE parsed.val
                          base_date == ReplaceDay(target_month, day_number)
                      IN  IF IsExc(base_date) THEN t ELSE base_date

\* parse_reference_point with t the value datetime.date.today() returned
parse_reference_point(t, reference, offset_value, offset_unit) ==
    CASE reference = "today" -> ref_today(t, offset_value, offset_unit)
      [] reference = "start_of_week" -> ref_start_of_week(t, offset_value, offset_unit)
      [] reference = "start_of_month" -> ref_start_of_month(t, offset_value, offset_unit)
      [] reference = "start_of_year" -> ref_start_of_year(t, offset_value, offset_unit)
      [] reference = "specific_month" -> ref_specific_month(t, offset_value, offset_unit)
      [] reference = "specific_weekday" ->
             ref_specific_weekday(t, offset_value, offset_unit)
      [] reference = "specific_day_of_month" ->
             ref_specific_day_of_month(t, offset_value, offset_unit)
      [] OTHER -> t

\* get_single_date: the date as text, or "Error: ..." for any exception
get_single_date(t, reference_point, offset_value, offset_unit) ==
    LET result_date == parse_reference_point(t, reference_point, offset_value, offset_unit)
    IN  IF IsExc(result_date) THEN ErrorText(result_date)
        ELSE strftime_Ymd(result_date)

\* get_week_range
get_week_range(t, week_offset) ==
    LET days_since_monday == weekday(t)
        start_of_current_week == AddDays(t, -days_since_monday)
        start_date == AddDays(start_of_current_week, 7 * week_offset)
        end_date == AddDays(start_date, 6)
    IN  IF IsExc(end_date) THEN [error |-> ErrorText(end_date)]
        ELSE [start_date |-> strftime_Ymd(start_date),
              end_date |-> strftime_Ymd(end_date)]

\* widen_end with the week widened by 7 days (to the next Monday)
widen_end_next_monday(end_date, start_reference, start_offset_unit, end_reference, end_offset_unit) ==
    IF start_reference = "start_of_month" /\ end_reference = "start_of_month"
    THEN AddDays(AddMonths(end_date, 1), -1)
    ELSE IF start_reference = "start_of_week" /\ end_reference = "start_of_week"
    THEN AddDays(end_date, 7)
    ELSE IF /\ start_reference = "specific_month"
            /\ end_reference = "specific_month"
            /\ start_offset_unit # end_offset_unit
    THEN ReplaceDay(end_date, monthrange(end_date.year, end_date.month))
    ELSE end_date

\* widen_end with the month taken as 30 days
widen_end_thirty_days(end_date, start_reference, start_offset_unit, end_reference, end_offset_unit) ==
    IF start_reference = "start_of_month" /\ end_reference = "start_of_month"
    THEN AddDays(end_date, 29)
    ELSE IF start_reference = "start_of_week" /\ end_reference = "start_of_week"
    THEN AddDays(end_date, 6)
    ELSE IF /\ start_reference = "specific_month"
            /\ end_reference = "specific_month"
            /\ start_offset_unit # end_offset_unit
    THEN ReplaceDay(end_date, monthrange(end_date.year, end_date.month))
    ELSE end_date

\* widen_end with the end of a specific_month pair left on day 1
widen_end_month_pair_unwidened(end_date, start_reference, start_offset_unit, end_reference, end_offset_unit) ==
    IF start_reference = "start_of_month" /\ end_reference = "start_of_month"
    THEN AddDays(AddMonths(end_date, 1), -1)
    ELSE IF start_reference = "start_of_week" /\ end_reference = "start_of_week"
    THEN AddDays(end_date, 6)
    ELSE end_date

\* widen_end with each adjustment applied when either end has the reference
widen_end_either_end(end_date, start_reference, start_offset_unit, end_reference, end_offset_unit) ==
    IF start_reference = "start_of_month" \/ end_reference = "start_of_month"
    THEN AddDays(AddMonths(end_date, 1), -1)
    ELSE IF start_reference = "start_of_week" \/ end_reference = "start_of_week"
    THEN AddDays(end_date, 6)
    ELSE IF /\ (start_reference = "specific_month" \/ end_reference = "specific_month")
            /\ start_offset_unit # end_offset_unit
    THEN ReplaceDay(end_date, monthrange(end_date.year, end_date.month))
    ELSE end_date

\* get_date_range lines 163-177: the end date after the boundary adjustment
widen_end(end_date, start_reference, start_offset_unit, end_reference, end_offset_unit) ==
    IF start_reference = "start_of_month" /\ end_reference = "start_of_month"
    THEN AddDays(AddMonths(end_date, 1), -1)
    ELSE IF start_reference = "start_of_week" /\ end_reference = "start_of_week"
    THEN AddDays(end_date, 6)
    ELSE IF /\ start_reference = "specific_month"
            /\ end_reference = "specific_month"
            /\ start_offset_unit # end_offset_unit
    THEN ReplaceDay(end_date, monthrange(end_date.year, end_date.month))
    ELSE end_date

\* get_date_range lines 159-184, given the two dates parse_reference_point
\* returned (or the exception it raised)
date_range_result(start_date, end_date0, q) ==
    IF IsExc(start_date) THEN [error |-> ErrorText(start_date)]
    ELSE IF IsExc(end_date0) THEN [error |-> ErrorText(end_date0)]
    ELSE LET end_date == widen_end(end_date0, q.start_reference, q.start_offset_unit,
                                   q.end_reference, q.end_offset_unit)
         IN  IF IsExc(end_date) THEN [error |-> ErrorText(end_date)]
             ELSE [start_date |-> strftime_Ymd(start_date),
                   end_date |-> strftime_Ymd(end_date)]

\* get_date_range with t1, t2 the values the two calls of
\* parse_reference_point read from the system date
get_date_range(t1, t2, q) ==
    date_range_result(
        parse_reference_point(t1, q.start_reference, q.start_offset_value,
                              q.start_offset_unit),
        parse_reference_point(t2, q.end_reference, q.end_offset_value,
                              q.end_offset_unit),
        q)

\* get_month_range
get_month_range(t, month_name, year_offset) ==
    LET month_num == DictGet(month_names, Lower(month_name), 0)
    IN  IF month_num = 0 THEN [error |-> [str |-> "Invalid month name", msg |-> month_name]]
        ELSE LET year == t.year + year_offset
                 start_date == Date(year, month_num, 1)
             IN  IF IsExc(start_date) THEN [error |-> ErrorText(start_date)]
                 ELSE LET last_day == monthrange(year, month_num)
                          end_date == Date(year, month_num, last_day)
                      IN  [start_date |-> strftime_Ymd(start_date),
                           end_date |-> strftime_Ymd(end_date)]

(***************************************************************************)
(* src/mcp/tools/datetimetool/process_date.py                              *)
(***************************************************************************)
None == [str |-> "None"]

Message(m) == [str |-> "message", msg |-> m]

\* date.strftime("%d-%m-%Y"): the fields are day, month, year in this order
strftime_dmY(d) == [str |-> "date", fields |-> <<d.day, d.month, d.year>>]

\* datetime.datetime.strptime(s, "%d-%m-%Y").date(): the first field is read
\* as the day, the second as the month, the third as the year; TypeError for
\* a value that is not a string, ValueError for a text that is not a date
strptime_dmY(s) ==
    IF s.str = "int" THEN Raise("TypeError", "strptime() argument 1 must be str")
    ELSE IF s.str # "date" THEN Raise("ValueError", "time data does not match format")
    ELSE IF s.fields[1] > 31 \/ s.fields[3] < 1000
         THEN Raise("ValueError", "time data does not match format")
    ELSE Date(s.fields[3], s.fields[2], s.fields[1])

\* strptime(...) if base_date_str else datetime.date.today(): None and the
\* empty string are falsy
base_date_of(t, base_date_str) ==
    IF base_date_str.str \in {"None", "empty"} THEN t ELSE strptime_dmY(base_date_str)

\* relativedelta(**{unit: offset}) added to base_date
add_relativedelta(base_date, unit, offset) ==
    CASE unit = "days" -> AddDays(base_date, offset)
      [] unit = "weeks" -> AddDays(base_date, 7 * offset)
      [] unit = "months" -> AddMonths(base_date, offset)
      [] unit = "years" -> AddYears(base_date, offset)

\* get_date_with_offset with the unit checked before the date string
get_date_with_offset_unit_first(t, offset, unit, base_date_str) ==
    LET base_date == base_date_of(t, base_date_str)
    IN  IF unit \notin {"days", "weeks", "months", "years"}
        THEN Message("Invalid unit. Please use 'days', 'weeks', 'months', or 'years'.")
        ELSE IF IsExc(base_date)
        THEN Message("Invalid base_date_str format. Please use DD-MM-YYYY.")
        ELSE LET new_date == add_relativedelta(base_date, unit, offset)
             IN  IF IsExc(new_date) THEN new_date ELSE strftime_dmY(new_date)

\* get_date_with_offset: a text, or the exception the date arithmetic raises
get_date_with_offset(t, offset, unit, base_date_str) ==
    LET base_date == base_date_of(t, base_date_str)
    IN  IF IsExc(base_date)
        THEN Message("Invalid base_date_str format. Please use DD-MM-YYYY.")
        ELSE IF unit \notin {"days", "weeks", "months", "years"}
        THEN Message("Invalid unit. Please use 'days', 'weeks', 'months', or 'years'.")
        ELSE LET new_date == add_relativedelta(base_date, unit, offset)
             IN  IF IsExc(new_date) THEN new_date ELSE strftime_dmY(new_date)

days_of_week ==
    <<"monday", "tuesday", "wednesday", "thursday", "friday", "saturday", "sunday">>

\* list.index(x), counted from 0
IndexOf(list, x) == (CHOOSE i \in DOMAIN list : list[i] = x) - 1

\* get_date_of_weekday
get_date_of_weekday(t, weekday_name_in, direction, base_date_str) ==
    LET weekday_name == Lower(weekday_name_in)
    IN  IF \A i \in DOMAIN days_of_week : days_of_week[i] # weekday_name
        THEN Message("Invalid weekday_name.")
        ELSE LET base_date == base_date_of(t, base_date_str)
             IN  IF IsExc(base_date)
                 THEN Message("Invalid base_date_str format. Please use DD-MM-YYYY.")
                 ELSE LET target_weekday == IndexOf(days_of_week, weekday_name)
                          base_weekday == weekday(base_date)
                      IN  IF direction = "last"
                          THEN LET day_diff == (base_weekday - target_weekday + 7) % 7
                                   new_date == AddDays(base_date,
                                                  -(IF day_diff = 0 THEN 7 ELSE day_diff))
                               IN  IF IsExc(new_date) THEN new_date
                                   ELSE strftime_dmY(new_date)
                          ELSE IF direction = "next"
                          THEN LET day_diff == (target_weekday - base_weekday + 7) % 7
                                   new_date == AddDays(base_date,
                                                  IF day_diff = 0 THEN 7 ELSE day_diff)
                               IN  IF IsExc(new_date) THEN new_date
                                   ELSE strftime_dmY(new_date)
                          ELSE Message("Invalid direction. Please use 'next' or 'last'.")

\* get_start_of_period: the date is parsed before the period is looked at
get_start_of_period(t, period, base_date_str) ==
    LET base_date == base_date_of(t, base_date_str)
    IN  IF IsExc(base_date)
        THEN Message("Invalid base_date_str format. Please use DD-MM-YYYY.")
        ELSE IF period \notin {"week", "month", "year"}
        THEN Message("Invalid period. Use 'week', 'month', or 'year'.")
        ELSE LET start_date ==
                     CASE period = "week" -> AddDays(base_date, -weekday(base_date))
                       [] period = "month" -> ReplaceDay(base_date, 1)
                       [] period = "year" -> Date(base_date.year, 1, 1)
             IN  IF IsExc(start_date) THEN start_date ELSE strftime_dmY(start_date)

\* get_end_of_period with the month taken as 30 days from its first day
get_end_of_period_thirty_days(t, period, base_date_str) ==
    LET base_date == base_date_of(t, base_date_str)
    IN  IF IsExc(base_date)
        THEN Message("Invalid base_date_str format. Please use DD-MM-YYYY.")
        ELSE IF period \notin {"week", "month", "year"}
        THEN Message("Invalid period. Use 'week', 'month', or 'year'.")
        ELSE LET end_date ==
                     CASE period = "week" -> AddDays(base_date, 6 - weekday(base_date))
                       [] period = "month" -> AddDays(ReplaceDay(base_date, 1), 29)
                       [] period = "year" -> Date(base_date.year, 12, 31)
             IN  IF IsExc(end_date) THEN end_date ELSE strftime_dmY(end_date)

\* get_end_of_period with the week ended 7 days after its Monday
get_end_of_period_next_monday(t, period, base_date_str) ==
    LET base_date == base_date_of(t, base_date_str)
    IN  IF IsExc(base_date)
        THEN Message("Invalid base_date_str format. Please use DD-MM-YYYY.")
        ELSE IF period \notin {"week", "month", "year"}
        THEN Message("Invalid period. Use 'week', 'month', or 'year'.")
        ELSE LET end_date ==
                     CASE period = "week" -> AddDays(base_date, 7 - weekday(base_date))
                       [] period = "month" ->
                              LET next_month == AddDays(ReplaceDay(base_date, 28), 4)
                              IN  IF IsExc(next_month) THEN next_month
                                  ELSE AddDays(next_month, -next_month.day)
                       [] period = "year" -> Date(base_date.year, 12, 31)
             IN  IF IsExc(end_date) THEN end_date ELSE strftime_dmY(end_date)

\* get_end_of_period: for a month, day 28 plus 4 days lies in the next month,
\* and that date minus its own day number is the last day of the month; an
\* exception of the date arithmetic is not caught
get_end_of_period(t, period, base_date_str) ==
    LET base_date == base_date_of(t, base_date_str)
    IN  IF IsExc(base_date)
        THEN Message("Invalid base_date_str format. Please use DD-MM-YYYY.")
        ELSE IF period \notin {"week", "month", "year"}
        THEN Message("Invalid period. Use 'week', 'month', or 'year'.")
        ELSE LET end_date ==
                     CASE period = "week" -> AddDays(base_date, 6 - weekday(base_date))
                       [] period = "month" ->
                              LET next_month == AddDays(ReplaceDay(base_date, 28), 4)
                              IN  IF IsExc(next_month) THEN next_month
                                  ELSE AddDays(next_month, -next_month.day)
                       [] period = "year" -> Date(base_date.year, 12, 31)
             IN  IF IsExc(end_date) THEN end_date ELSE strftime_dmY(end_date)

\* get_date_range_for_quarter with the year taken from the quarter count
\* without the "- 1" (the fourth quarter falls into the next year)
get_date_range_for_quarter_year_off(t, offset) ==
    LET current_quarter == ((t.month - 1) \div 3) + 1
        target_quarter_val == (t.year * 4) + current_quarter + offset
        target_year == target_quarter_val \div 4
        target_quarter_num == ((target_quarter_val - 1) % 4) + 1
        start_date == Date(target_year, 3 * target_quarter_num - 2, 1)
        end_date == AddDays(AddMonths(ReplaceDay(Date(target_year, 3 * target_quarter_num, 1), 1), 1), -1)
    IN  IF IsExc(start_date) THEN start_date
        ELSE IF IsExc(end_date) THEN end_date
        ELSE [start_date |-> strftime_dmY(start_date), end_date |-> strftime_dmY(end_date)]

\* get_date_range_for_quarter with the quarter taken as 90 days
get_date_range_for_quarter_ninety_days(t, offset) ==
    LET current_quarter == ((t.month - 1) \div 3) + 1
        target_quarter_val == (t.year * 4) + current_quarter + offset
        target_year == (target_quarter_val - 1) \div 4
        target_quarter_num == ((target_quarter_val - 1) % 4) + 1
        start_date == Date(target_year, 3 * target_quarter_num - 2, 1)
        end_date == AddDays(start_date, 89)
    IN  IF IsExc(start_date) THEN start_date
        ELSE IF IsExc(end_date) THEN end_date
        ELSE [start_date |-> strftime_dmY(start_date), end_date |-> strftime_dmY(end_date)]

\* get_date_range_for_quarter: the dictionary of the two dates, or the
\* exception the date arithmetic raises (the function catches none)
get_date_range_for_quarter(t, offset) ==
    LET current_quarter == ((t.month - 1) \div 3) + 1
        target_quarter_val == (t.year * 4) + current_quarter + offset
        target_year == (target_quarter_val - 1) \div 4
        target_quarter_num == ((target_quarter_val - 1) % 4) + 1
        start_month == 3 * target_quarter_num - 2
        end_month == 3 * target_quarter_num
        start_date == Date(target_year, start_month, 1)
        end_date == AddDays(AddMonths(ReplaceDay(Date(target_year, end_month, 1), 1), 1), -1)
    IN  IF IsExc(start_date) THEN start_date
        ELSE IF IsExc(end_date) THEN end_date
        ELSE [start_date |-> strftime_dmY(start_date),
              end_date |-> strftime_dmY(end_date)]

(***************************************************************************)
(* Bounds and the inputs the callers choose                                *)
(***************************************************************************)
NumDays == 56

MaxOffset == 2

FarOffset == 12

MaxRangeOffset == 1

FirstDay == [year |-> 2024, month |-> 1, day |-> 8]

\* the system dates of the model: 2024-01-08 (a Monday) onwards, through
\* January 31, February 29 and the first days of March
Days == {AddDays(FirstDay, k) : k \in 0..(NumDays - 1)}

Offsets == (-MaxOffset..MaxOffset) \cup {-FarOffset, FarOffset}

RangeOffsets == -MaxRangeOffset..MaxRangeOffset

References ==
    {"today", "start_of_week", "start_of_month", "start_of_year",
     "specific_month", "specific_weekday", "specific_day_of_month"}

WeekdayTokens ==
    {"monday", "tuesday", "wednesday", "thursday", "friday", "saturday", "sunday"}

\* the offset units sent with each reference point: the ones it documents,
\* spelling variants, and ones that do not belong to it
UnitsFor(r) ==
    CASE r = "today" -> {"days", "weeks", "months", "years", "hours"}
      [] r = "start_of_week" -> {"weeks", "this", "days"}
      [] r = "start_of_month" -> {"months", "days"}
      [] r = "start_of_year" -> {"years", "months"}
      [] r = "specific_month" ->
             {"february", "feb", "FEB", "March", "april", "december", "smarch"}
      [] r = "specific_weekday" -> WeekdayTokens \cup {"Thursday", "SUNDAY", "someday"}
      [] r = "specific_day_of_month" ->
             {"1", "15", "29", "30", "31", "45", "0", "-3", "abc"}
      [] OTHER -> {"days"}

RangeUnitsFor(r) ==
    CASE r = "today" -> {"days"}
      [] r = "start_of_week" -> {"weeks", "this", "days"}
      [] r = "start_of_month" -> {"months"}
      [] r = "start_of_year" -> {"years"}
      [] r = "specific_month" -> {"february", "feb", "March", "december", "smarch"}
      [] r = "specific_weekday" -> {"monday"}
      [] r = "specific_day_of_month" -> {"31"}
      [] OTHER -> {"days"}

\* "end_of_month" is not a reference point of the calculator
AllReferences == References \cup {"end_of_month"}

SingleQueries ==
    UNION {[reference_point : {r}, offset_value : Offsets, offset_unit : UnitsFor(r)] :
           r \in AllReferences}

RangeEnds ==
    UNION {[reference : {r}, offset_value : RangeOffsets, offset_unit : RangeUnitsFor(r)] :
           r \in AllReferences}

RangeQuery(s, e) ==
    [start_reference |-> s.reference, start_offset_value |-> s.offset_value,
     start_offset_unit |-> s.offset_unit,
     end_reference |-> e.reference, end_offset_value |-> e.offset_value,
     end_offset_unit |-> e.offset_unit]

BaseDateStrings ==
    {None,
     [str |-> "empty"],
     [str |-> "date", fields |-> <<31, 12, 2023>>],
     [str |-> "date", fields |-> <<29, 2, 2024>>],
     [str |-> "date", fields |-> <<30, 2, 2024>>],
     [str |-> "date", fields |-> <<2024, 2, 29>>],
     [str |-> "int"]}

(***************************************************************************)
(* The state machine: a caller issues one call at a time and reads the     *)
(* result before the next call.                                            *)
(***************************************************************************)
NoCall == [op |-> "none"]

Init ==
    /\ today \in Days
    /\ pc = "idle"
    /\ call = NoCall
    /\ result = None
    /\ pending = None
    /\ log = <<>>
    /\ prev = None

\* get_single_date(reference_point, offset_value, offset_unit)
GetSingleDate ==
    /\ pc = "idle"
    /\ \E q \in SingleQueries :
          /\ call' = [op |-> "get_single_date", args |-> q, seen |-> <<today>>]
          /\ result' = get_single_date(today, q.reference_point, q.offset_value,
                                       q.offset_unit)
    /\ pc' = "returned"
    /\ UNCHANGED <<today, pending, prev, log>>

\* get_date_range(...) while the system date does not change
GetDateRange ==
    /\ pc = "idle"
    /\ \E s \in RangeEnds, e \in RangeEnds :
          /\ call' = [op |-> "get_date_range", args |-> RangeQuery(s, e),
                      seen |-> <<today, today>>]
          /\ result' = get_date_range(today, today, RangeQuery(s, e))
    /\ pc' = "returned"
    /\ UNCHANGED <<today, pending, prev, log>>

\* get_week_range(week_offset)
GetWeekRange ==
    /\ pc = "idle"
    /\ \E w \in Offsets :
          /\ call' = [op |-> "get_week_range", args |-> [week_offset |-> w],
                      seen |-> <<today>>]
          /\ result' = get_week_range(today, w)
    /\ pc' = "returned"
    /\ UNCHANGED <<today, pending, prev, log>>

\* get_month_range(month_name, year_offset)
GetMonthRange ==
    /\ pc = "idle"
    /\ \E m \in UnitsFor("specific_month"), y \in Offsets :
          /\ call' = [op |-> "get_month_range",
                      args |-> [month_name |-> m, year_offset |-> y],
                      seen |-> <<today>>]
          /\ result' = get_month_range(today, m, y)
    /\ pc' = "returned"
    /\ UNCHANGED <<today, pending, prev, log>>

\* get_date_with_offset(offset, unit, base_date_str)
GetDateWithOffset ==
    /\ pc = "idle"
    /\ \E v \in Offsets, u \in UnitsFor("today"), b \in BaseDateStrings :
          LET r == get_date_with_offset(today, v, u, b)
          IN  /\ call' = [op |-> "get_date_with_offset",
                          args |-> [offset |-> v, unit |-> u, base_date_str |-> b],
                          seen |-> <<today>>]
              /\ result' = r
    /\ pc' = "returned"
    /\ UNCHANGED <<today, pending, prev, log>>

\* get_date_of_weekday(weekday_name, direction, base_date_str)
GetDateOfWeekday ==
    /\ pc = "idle"
    /\ \E w \in UnitsFor("specific_weekday"), d \in {"last", "next", "this"},
          b \in BaseDateStrings :
          /\ call' = [op |-> "get_date_of_weekday",
                      args |-> [weekday_name |-> w, direction |-> d,
                                base_date_str |-> b],
                      seen |-> <<today>>]
          /\ result' = get_date_of_weekday(today, w, d, b)
    /\ pc' = "returned"
    /\ UNCHANGED <<today, pending, prev, log>>

\* the caller has read the result
Return ==
    /\ pc = "returned"
    /\ pc' = "idle"
    /\ call' = NoCall
    /\ result' = None
    /\ prev' = None
    /\ UNCHANGED <<today, pending, log>>

Next ==
    \/ GetSingleDate
    \/ GetDateRange
    \/ GetWeekRange
    \/ GetMonthRange
    \/ GetDateWithOffset
    \/ GetDateOfWeekday
    \/ Return

Spec == Init /\ [][Next]_vars

(***************************************************************************)
(* The same calls while the system date moves: datetime.date.today() is    *)
(* read where the code reads it, and midnight may pass between two reads.  *)
(***************************************************************************)
MaxTicks == 1

LastDay == AddDays(FirstDay, NumDays - 1)

\* the ends of the ranges asked for while the date moves
ClockEnds == {e \in RangeEnds : e.reference \in {"today", "start_of_week", "start_of_month"}}

\* midnight passes: at most MaxTicks times after the first read of a call
Tick ==
    /\ ToOrdinal(today) < ToOrdinal(LastDay)
    /\ IF pc = "idle" THEN TRUE
       ELSE ToOrdinal(today) - ToOrdinal(call.seen[1]) < MaxTicks
    /\ today' = AddDays(today, 1)
    /\ UNCHANGED <<pc, call, result, pending, prev, log>>

\* get_date_range up to the return of its first parse_reference_point call
\* (line 160), which reads the system date
BeginDateRange ==
    /\ pc = "idle"
    /\ \E s \in ClockEnds, e \in ClockEnds :
          /\ call' = [op |-> "get_date_range", args |-> RangeQuery(s, e),
                      seen |-> <<today>>]
          /\ pending' = parse_reference_point(today, s.reference, s.offset_value,
                                              s.offset_unit)
    /\ pc' = "range_mid"
    /\ UNCHANGED <<today, result, prev, log>>

\* get_date_range from its second parse_reference_point call (line 161),
\* which reads the system date again, to the return
FinishDateRange ==
    /\ pc = "range_mid"
    /\ result' = date_range_result(
                     pending,
                     parse_reference_point(today, call.args.end_reference,
                         call.args.end_offset_value, call.args.end_offset_unit),
                     call.args)
    /\ call' = IF IsExc(pending) THEN call
               ELSE [call EXCEPT !.seen = Append(@, today)]
    /\ pending' = None
    /\ pc' = "returned"
    /\ UNCHANGED <<today, prev, log>>

\* the caller repeats the call it has just made, with the same arguments
Reevaluate ==
    /\ pc = "returned"
    /\ prev = None
    /\ call.op \in {"get_single_date", "get_week_range", "get_month_range"}
    /\ prev' = result
    /\ result' =
           CASE call.op = "get_single_date" ->
                    get_single_date(today, call.args.reference_point,
                                    call.args.offset_value, call.args.offset_unit)
             [] call.op = "get_week_range" -> get_week_range(today, call.args.week_offset)
             [] call.op = "get_month_range" ->
                    get_month_range(today, call.args.month_name, call.args.year_offset)
    /\ call' = [call EXCEPT !.seen = <<today>>]
    /\ UNCHANGED <<today, pc, pending, log>>

\* the caller repeats a get_date_range call with the same arguments
ReevaluateRange ==
    /\ pc = "returned"
    /\ prev = None
    /\ call.op = "get_date_range"
    /\ prev' = result
    /\ pending' = parse_reference_point(today, call.args.start_reference,
                      call.args.start_offset_value, call.args.start_offset_unit)
    /\ call' = [call EXCEPT !.seen = <<today>>]
    /\ pc' = "range_mid"
    /\ UNCHANGED <<today, result, log>>

NextClock ==
    \/ Tick
    \/ GetSingleDate
    \/ GetWeekRange
    \/ GetMonthRange
    \/ BeginDateRange
    \/ FinishDateRange
    \/ Reevaluate
    \/ ReevaluateRange
    \/ Return

SpecClock == Init /\ [][NextClock]_vars

(***************************************************************************)
(* src/mcp/date_mcp_server.py and src/mcp/date_client.py: the tool         *)
(* dispatcher and the routing of a parsed LLM response to the tools.       *)
(***************************************************************************)
\* json.dumps(value)
json_dumps(value) == [str |-> "json", value |-> value]

\* json.loads(text): JSONDecodeError for a text that json.dumps did not write
json_loads(text) ==
    IF text.str = "json" THEN text.value
    ELSE Raise("JSONDecodeError", "Expecting value")

\* the first of the keys that dict lacks, as the KeyError of dict[key]
KeyErrorAmong(dict, keys) ==
    LET i == CHOOSE k \in DOMAIN keys :
                 /\ keys[k] \notin DOMAIN dict
                 /\ \A j \in 1..(k - 1) : keys[j] \in DOMAIN dict
    IN  Raise("KeyError", keys[i])

HasAll(dict, keys) == \A k \in DOMAIN keys : keys[k] \in DOMAIN dict

\* handle_call_tool whose ValueError for an unknown tool is raised outside
\* the try block and leaves the handler
handle_call_tool_uncaught(t, name, arguments) ==
    CASE name = "get_current_date" -> strftime_Ymd(t)
      [] name = "get_single_date" ->
             LET keys == <<"reference_point", "offset_value", "offset_unit">>
             IN  IF ~HasAll(arguments, keys)
                 THEN ErrorText(KeyErrorAmong(arguments, keys))
                 ELSE get_single_date(t, arguments.reference_point,
                                      arguments.offset_value, arguments.offset_unit)
      [] name = "get_date_range" ->
             LET keys == <<"start_reference", "start_offset_value", "start_offset_unit",
                           "end_reference", "end_offset_value", "end_offset_unit">>
             IN  IF ~HasAll(arguments, keys)
                 THEN ErrorText(KeyErrorAmong(arguments, keys))
                 ELSE json_dumps(get_date_range(t, t, arguments))
      [] name = "get_month_range" ->
             IF "month_name" \notin DOMAIN arguments
             THEN ErrorText(Raise("KeyError", "month_name"))
             ELSE json_dumps(get_month_range(t, arguments.month_name,
                                             DictGet(arguments, "year_offset", 0)))
      [] name = "get_week_range" ->
             json_dumps(get_week_range(t, DictGet(arguments, "week_offset", 0)))
      [] OTHER -> Raise("ValueError", "Unknown tool")

\* handle_call_tool(name, arguments): the text of the one TextContent item
handle_call_tool(t, name, arguments) ==
    CASE name = "get_current_date" -> strftime_Ymd(t)
      [] name = "get_single_date" ->
             LET keys == <<"reference_point", "offset_value", "offset_unit">>
             IN  IF ~HasAll(arguments, keys)
                 THEN ErrorText(KeyErrorAmong(arguments, keys))
                 ELSE get_single_date(t, arguments.reference_point,
                                      arguments.offset_value, arguments.offset_unit)
      [] name = "get_date_range" ->
             LET keys == <<"start_reference", "start_offset_value", "start_offset_unit",
                           "end_reference", "end_offset_value", "end_offset_unit">>
             IN  IF ~HasAll(arguments, keys)
                 THEN ErrorText(KeyErrorAmong(arguments, keys))
                 ELSE json_dumps(get_date_range(t, t, arguments))
      [] name = "get_month_range" ->
             IF "month_name" \notin DOMAIN arguments
             THEN ErrorText(Raise("KeyError", "month_name"))
             ELSE json_dumps(get_month_range(t, arguments.month_name,
                                             DictGet(arguments, "year_offset", 0)))
      [] name = "get_week_range" ->
             json_dumps(get_week_range(t, DictGet(arguments, "week_offset", 0)))
      [] OTHER -> ErrorText(Raise("ValueError", "Unknown tool"))

\* route_date_range with every range sent to get_date_range
route_date_range_unrouted(params) == [tool |-> "get_date_range", arguments |-> params]

\* process_query lines 151-173: the tool a date_range query is sent to and
\* its arguments, or the KeyError of the first missing parameter the routing
\* conditions read (the conditions are evaluated left to right and stop at
\* the first false one)
route_date_range(params) ==
    IF "start_reference" \notin DOMAIN params
    THEN Raise("KeyError", "start_reference")
    ELSE IF params.start_reference = "start_of_week"
            /\ "end_reference" \notin DOMAIN params
    THEN Raise("KeyError", "end_reference")
    ELSE IF params.start_reference = "start_of_week"
            /\ params.end_reference = "start_of_week"
            /\ ~HasAll(params, <<"start_offset_value", "end_offset_value">>)
    THEN KeyErrorAmong(params, <<"start_offset_value", "end_offset_value">>)
    ELSE IF params.start_reference = "start_of_week"
            /\ params.end_reference = "start_of_week"
            /\ params.start_offset_value = params.end_offset_value
    THEN [tool |-> "get_week_range",
          arguments |-> [week_offset |-> params.start_offset_value]]
    ELSE IF params.start_reference = "specific_month"
            /\ "end_reference" \notin DOMAIN params
    THEN Raise("KeyError", "end_reference")
    ELSE IF params.start_reference = "specific_month"
            /\ params.end_reference = "specific_month"
            /\ ~HasAll(params, <<"start_offset_unit", "end_offset_unit">>)
    THEN KeyErrorAmong(params, <<"start_offset_unit", "end_offset_unit">>)
    ELSE IF params.start_reference = "specific_month"
            /\ params.end_reference = "specific_month"
            /\ params.start_offset_unit = params.end_offset_unit
    THEN IF "start_offset_value" \notin DOMAIN params
         THEN Raise("KeyError", "start_offset_value")
         ELSE [tool |-> "get_month_range",
               arguments |-> [month_name |-> params.start_offset_unit,
                              year_offset |-> params.start_offset_value]]
    ELSE [tool |-> "get_date_range", arguments |-> params]

\* process_query lines 141-180, given the parsed LLM response: every
\* exception becomes {"error": str(e)}
process_query(t, parsed) ==
    IF ~HasAll(parsed, <<"query_type", "parameters">>)
    THEN [error |-> KeyErrorAmong(parsed, <<"query_type", "parameters">>).msg]
    ELSE IF parsed.query_type = "single_date"
    THEN [type |-> "single_date",
          date |-> handle_call_tool(t, "get_single_date", parsed.parameters)]
    ELSE IF parsed.query_type = "date_range"
    THEN LET route == route_date_range(parsed.parameters)
         IN  IF IsExc(route) THEN [error |-> route.msg]
             ELSE LET range_result ==
                          json_loads(handle_call_tool(t, route.tool, route.arguments))
                  IN  IF IsExc(range_result) THEN [error |-> range_result.msg]
                      ELSE range_result @@ [type |-> "date_range"]
    ELSE [error |-> "Unknown query type"]

\* the smallest year offset that leaves the calendar (year 10000)
YearOverflow == 10000 - FirstDay.year

\* the parsed responses of the LLM: queries of the vocabulary, a year offset
\* beyond the calendar, a missing parameter, an unknown query type
ClientSingles ==
    {q \in SingleQueries : q.offset_value \in RangeOffsets}
    \cup {[reference_point |-> "specific_month", offset_value |-> YearOverflow,
           offset_unit |-> "february"],
          [reference_point |-> "today", offset_value |-> YearOverflow,
           offset_unit |-> "years"]}

ClientEnds ==
    {e \in RangeEnds : e.reference \in {"today", "start_of_week", "start_of_month",
                                       "specific_month", "end_of_month"}}
    \cup {[reference |-> "specific_month", offset_value |-> YearOverflow,
           offset_unit |-> "february"]}

ParsedResponses ==
    {[query_type |-> "single_date", parameters |-> q] : q \in ClientSingles}
    \cup {[query_type |-> "date_range", parameters |-> RangeQuery(a, b)] :
          a \in ClientEnds, b \in ClientEnds}
    \cup {[query_type |-> "single_date",
           parameters |-> [reference_point |-> "today", offset_value |-> 0]],
          [query_type |-> "date_range",
           parameters |-> [start_reference |-> "today", start_offset_value |-> 0,
                           start_offset_unit |-> "days"]],
          [query_type |-> "date_range",
           parameters |-> [start_reference |-> "start_of_week",
                           end_reference |-> "start_of_week"]],
          [query_type |-> "time_range", parameters |-> [part_of_day |-> "morning"]],
          [parameters |-> [reference_point |-> "today"]]}

\* process_query from the parsed response on
ProcessQuery ==
    /\ pc = "idle"
    /\ \E parsed \in ParsedResponses :
          /\ call' = [op |-> "process_query", args |-> parsed, seen |-> <<today>>]
          /\ result' = process_query(today, parsed)
    /\ pc' = "returned"
    /\ UNCHANGED <<today, pending, prev, log>>

\* the tool names a client sends: the five tools and one the server lacks
ToolNames ==
    {"get_current_date", "get_single_date", "get_date_range", "get_month_range",
     "get_week_range", "get_quarter_range"}

\* the argument dictionaries: complete ones for each tool, ones that lack a
\* key, and the empty one
ToolArguments ==
    {<<>>,
     [reference_point |-> "today", offset_value |-> 1, offset_unit |-> "days"],
     [reference_point |-> "specific_month", offset_value |-> YearOverflow,
      offset_unit |-> "february"],
     [reference_point |-> "today", offset_value |-> 1],
     [offset_value |-> 1, offset_unit |-> "days"],
     RangeQuery([reference |-> "start_of_month", offset_value |-> -1, offset_unit |-> "months"],
                [reference |-> "start_of_month", offset_value |-> 0, offset_unit |-> "months"]),
     RangeQuery([reference |-> "today", offset_value |-> 1, offset_unit |-> "days"],
                [reference |-> "specific_month", offset_value |-> YearOverflow,
                 offset_unit |-> "february"]),
     [start_reference |-> "today", start_offset_value |-> 0, start_offset_unit |-> "days"],
     [month_name |-> "february", year_offset |-> -1],
     [month_name |-> "smarch"],
     [year_offset |-> 1],
     [week_offset |-> -1]}

\* one tool call received by the server
HandleCallTool ==
    /\ pc = "idle"
    /\ \E name \in ToolNames, arguments \in ToolArguments :
          /\ call' = [op |-> "handle_call_tool",
                      args |-> [name |-> name, arguments |-> arguments],
                      seen |-> <<today>>]
          /\ result' = handle_call_tool(today, name, arguments)
    /\ pc' = "returned"
    /\ UNCHANGED <<today, pending, prev, log>>

NextClient ==
    \/ ProcessQuery
    \/ HandleCallTool
    \/ GetDateRange
    \/ GetWeekRange
    \/ GetMonthRange
    \/ Return

SpecClient == Init /\ [][NextClient]_vars

(***************************************************************************)
(* The text classifier (_parse_date_query, calculate_date): its module is  *)
(* not among the sources, so the tiers follow the specification's section  *)
(* 4.3 and the calls of src/mcp/tools/tests/test_process_date.py.  A text  *)
(* is its sequence of lower-case words.                                    *)
(***************************************************************************)
Text(words) == [str |-> "text", words |-> words]

\* _is_numeric: a string of digits
is_numeric(token) == token \in DOMAIN IntLiterals /\ IntLiterals[token] >= 0

PastDirections == {"ago", "before", "back", "last"}

FutureDirections == {"from now", "after", "next", "in"}

UnitWords ==
    [d |-> "days", day |-> "days", days |-> "days",
     w |-> "weeks", wk |-> "weeks", wks |-> "weeks", week |-> "weeks", weeks |-> "weeks",
     mo |-> "months", mos |-> "months", month |-> "months", months |-> "months",
     y |-> "years", yr |-> "years", yrs |-> "years", year |-> "years", years |-> "years"]

\* the unit as the tests see it captured after a quantity: "3 months ago"
\* gives 'month', "3 mos ago" gives 'mo', "5d ago" gives 'd'
unit_stem(unit) ==
    CASE unit = "days" -> "day"
      [] unit = "weeks" -> "week"
      [] unit = "months" -> "month"
      [] unit = "years" -> "year"
      [] unit = "mos" -> "mo"
      [] unit = "wks" -> "wk"
      [] unit = "yrs" -> "yr"
      [] OTHER -> unit

\* the unit as the tests see it captured after a leading direction: "in 3
\* weeks" gives 'w', "back 5 days" gives 'd'
unit_initial(unit) ==
    CASE UnitWords[unit] = "days" -> "d"
      [] UnitWords[unit] = "weeks" -> "w"
      [] UnitWords[unit] = "years" -> "y"
      [] OTHER -> unit_stem(unit)

Parsed(quantity, unit, direction) ==
    [quantity |-> quantity, unit |-> unit, direction |-> direction]

\* tier_keyword deciding by the last word alone: a text ending in "tomorrow"
\* or "yesterday" gets the result of that word
tier_keyword_last_word(words) ==
    IF words = <<>> THEN None
    ELSE CASE words[Len(words)] = "today" -> Parsed(0, "days", "from now")
           [] words[Len(words)] = "tomorrow" -> Parsed(1, "days", "from now")
           [] words[Len(words)] = "yesterday" -> Parsed(1, "days", "ago")
           [] words \in {<<"fortnight", "from", "now">>, <<"a", "fortnight", "from", "now">>} ->
                  Parsed(2, "weeks", "from now")
           [] words \in {<<"fortnight", "ago">>, <<"a", "fortnight", "ago">>} ->
                  Parsed(2, "weeks", "ago")
           [] OTHER -> None

\* tier 1: the fixed phrases
tier_keyword(words) ==
    CASE words = <<"today">> -> Parsed(0, "days", "from now")
      [] words = <<"tomorrow">> -> Parsed(1, "days", "from now")
      [] words = <<"yesterday">> -> Parsed(1, "days", "ago")
      [] words = <<"day", "after", "tomorrow">> -> Parsed(2, "days", "from now")
      [] words = <<"day", "before", "yesterday">> -> Parsed(2, "days", "ago")
      [] words \in {<<"fortnight", "from", "now">>, <<"a", "fortnight", "from", "now">>} ->
             Parsed(2, "weeks", "from now")
      [] words \in {<<"fortnight", "ago">>, <<"a", "fortnight", "ago">>} ->
             Parsed(2, "weeks", "ago")
      [] OTHER -> None

\* tier 2: (next | last) (weekday name | week | month | year)
tier_next_last(words) ==
    IF /\ Len(words) = 2
       /\ words[1] \in {"next", "last"}
       /\ words[2] \in WeekdayTokens \cup {"week", "month", "year"}
    THEN Parsed(1, words[2], words[1])
    ELSE None

\* _parse_numeric_string and the digits: the quantity of a phrase, -1 if the
\* words are no quantity
quantity_of(words) ==
    IF words = <<"a", "couple", "of">> THEN 2
    ELSE IF words \in {<<"a">>, <<"the">>} THEN 1
    ELSE IF Len(words) = 1 /\ is_numeric(words[1]) THEN IntLiterals[words[1]]
    ELSE -1

\* the direction of a phrase, "" if the words are no direction
direction_of(words) ==
    IF words = <<"from", "now">> THEN "from now"
    ELSE IF Len(words) = 1 /\ words[1] \in PastDirections \cup FutureDirections
    THEN words[1]
    ELSE ""

\* tier 3: <quantity> <unit> <direction> or <direction> <quantity> <unit>
tier_quantity(words) ==
    LET n == Len(words)
        \* quantity = words[1..i], unit = words[i+1], direction = the rest
        After(i) == /\ quantity_of(SubSeq(words, 1, i)) >= 0
                    /\ words[i + 1] \in DOMAIN UnitWords
                    /\ direction_of(SubSeq(words, i + 2, n)) # ""
        \* direction = words[1..i], quantity = words[i+1..n-1], unit = words[n]
        Before(i) == /\ direction_of(SubSeq(words, 1, i)) # ""
                     /\ quantity_of(SubSeq(words, i + 1, n - 1)) >= 0
                     /\ words[n] \in DOMAIN UnitWords
    IN  IF \E i \in 1..(n - 2) : After(i)
        THEN LET i == CHOOSE k \in 1..(n - 2) : After(k)
             IN  Parsed(quantity_of(SubSeq(words, 1, i)), unit_stem(words[i + 1]),
                        direction_of(SubSeq(words, i + 2, n)))
        ELSE IF \E i \in 1..(n - 2) : Before(i)
        THEN LET i == CHOOSE k \in 1..(n - 2) : Before(k)
             IN  Parsed(quantity_of(SubSeq(words, i + 1, n - 1)), unit_initial(words[n]),
                        direction_of(SubSeq(words, 1, i)))
        ELSE None

\* the tiers in order, with today as the default where none matches
first_match_default(a, b, c) == IF a # None THEN a ELSE IF b # None THEN b ELSE IF c # None THEN c ELSE Parsed(0, "days", "from now")

\* the tiers in order: the first match, None where none matches
first_match(a, b, c) == IF a # None THEN a ELSE IF b # None THEN b ELSE c

\* _parse_date_query: the tiers in order, the first match wins; None for a
\* value that is not a string and for a text no tier matches
parse_date_query(query) ==
    IF query.str # "text" THEN None
    ELSE LET words == [i \in 1..Len(query.words) |-> Lower(query.words[i])]
         IN  first_match(tier_keyword(words), tier_next_last(words),
                         tier_quantity(words))

\* the lower-cased words of a text
words_of(query) == [i \in 1..Len(query.words) |-> Lower(query.words[i])]

\* classify with the direction ignored: every quantity counted forward
classify_unsigned(query) ==
    LET words == words_of(query)
        p == parse_date_query(query)
    IN  IF tier_keyword(words) = None /\ tier_next_last(words) # None
        THEN IF p.unit \in WeekdayTokens
             THEN [reference_point |-> "specific_weekday", offset_value |-> 1, offset_unit |-> p.unit]
             ELSE [reference_point |-> CASE p.unit = "week" -> "start_of_week"
                                         [] p.unit = "month" -> "start_of_month"
                                         [] p.unit = "year" -> "start_of_year",
                   offset_value |-> 1, offset_unit |-> UnitWords[p.unit]]
        ELSE [reference_point |-> "today", offset_value |-> p.quantity, offset_unit |-> UnitWords[p.unit]]

\* the symbolic query of a text some tier matches: the next/last tier sends
\* weekday names to specific_weekday and week, month, year to the start_of_*
\* reference with value +1 or -1; the keyword and quantity tiers give today
\* with the quantity, negated for a past direction, in the canonical unit
classify(query) ==
    LET words == words_of(query)
        p == parse_date_query(query)
        sign == IF p.direction \in PastDirections THEN -1 ELSE 1
    IN  IF tier_keyword(words) = None /\ tier_next_last(words) # None
        THEN IF p.unit \in WeekdayTokens
             THEN [reference_point |-> "specific_weekday", offset_value |-> sign,
                   offset_unit |-> p.unit]
             ELSE [reference_point |-> CASE p.unit = "week" -> "start_of_week"
                                         [] p.unit = "month" -> "start_of_month"
                                         [] p.unit = "year" -> "start_of_year",
                   offset_value |-> sign, offset_unit |-> UnitWords[p.unit]]
        ELSE [reference_point |-> "today", offset_value |-> sign * p.quantity,
              offset_unit |-> UnitWords[p.unit]]

\* calculate_date: the date as text, or the message for an unrecognized text
calculate_date(t, query) ==
    IF parse_date_query(query) = None
    THEN Message("Invalid query format. Please use a valid format.")
    ELSE LET q == classify(query)
         IN  get_single_date(t, q.reference_point, q.offset_value, q.offset_unit)

\* the texts of the tests, and texts that differ from them by a word
Queries ==
    {Text(<<"today">>), Text(<<"tomorrow">>), Text(<<"yesterday">>),
     Text(<<"day", "after", "tomorrow">>), Text(<<"day", "before", "yesterday">>),
     Text(<<"a", "fortnight", "from", "now">>), Text(<<"fortnight", "ago">>),
     Text(<<"next", "week">>), Text(<<"last", "month">>), Text(<<"last", "year">>),
     Text(<<"next", "friday">>), Text(<<"next", "monday">>), Text(<<"last", "friday">>),
     Text(<<"3", "days", "ago">>), Text(<<"2", "weeks", "from", "now">>),
     Text(<<"5", "days", "before">>), Text(<<"3", "months", "ago">>),
     Text(<<"in", "3", "weeks">>), Text(<<"back", "5", "days">>),
     Text(<<"a", "couple", "of", "days", "ago">>), Text(<<"a", "year", "from", "now">>),
     Text(<<"5", "d", "ago">>), Text(<<"2", "yrs", "from", "now">>),
     Text(<<"invalid", "query">>), Text(<<"invalid", "date", "query">>),
     Text(<<"random", "text">>), Text(<<>>), Text(<<"3", "dayz", "ago">>),
     Text(<<"next">>), Text(<<"ago", "3", "days", "ago">>), Text(<<"days", "ago">>),
     Text(<<"the", "day", "tomorrow">>), Text(<<"-3", "days", "ago">>),
     Text(<<"next", "Monday">>), Text(<<"1", "y", "before">>),
     Text(<<"last", "Monday">>), Text(<<"last", "thursday">>),
     Text(<<"3", "mos", "ago">>), Text(<<"5", "wks", "before">>),
     Text(<<"3", "weeks", "from", "now">>), Text(<<"5", "days", "ago">>),
     Text(<<"next", "1", "month">>), Text(<<"1", "week", "last">>),
     Text(<<"2", "years", "after">>), Text(<<"the", "month", "back">>),
     Text(<<"last", "2", "weeks">>),
     None, [str |-> "int"]}

\* calculate_date(query), with the result of _parse_date_query kept
CalculateDate ==
    /\ pc = "idle"
    /\ \E query \in Queries :
          /\ call' = [op |-> "calculate_date", args |-> [query |-> query],
                      parsed |-> parse_date_query(query), seen |-> <<today>>]
          /\ result' = calculate_date(today, query)
    /\ pc' = "returned"
    /\ UNCHANGED <<today, pending, prev, log>>

NextClassify ==
    \/ CalculateDate
    \/ Return

\* the days of the specification's scenarios and of the tests: Thursday
\* 2025-07-17 and Saturday 2025-07-19
ScenarioDays ==
    {[year |-> 2025, month |-> 7, day |-> 17], [year |-> 2025, month |-> 7, day |-> 19]}

InitClassify ==
    /\ today \in Days \cup ScenarioDays
    /\ pc = "idle"
    /\ call = NoCall
    /\ result = None
    /\ pending = None
    /\ log = <<>>
    /\ prev = None

SpecClassify == InitClassify /\ [][NextClassify]_vars

(***************************************************************************)
(* get_date_range_for_quarter, called on days of every quarter             *)
(***************************************************************************)
\* the first and the last day of each quarter of 2024, and a day inside each
QuarterDays ==
    {[year |-> 2024, month |-> m, day |-> 1] : m \in {1, 4, 7, 10}}
    \cup {[year |-> 2024, month |-> 3, day |-> 31], [year |-> 2024, month |-> 6, day |-> 30],
          [year |-> 2024, month |-> 9, day |-> 30], [year |-> 2024, month |-> 12, day |-> 31]}
    \cup {[year |-> 2024, month |-> m, day |-> 15] : m \in {2, 5, 8, 11}}

\* the quarter offsets: the near ones, more than a year, and three years
QuarterOffsets == Offsets \cup {-5, 5}

InitQuarter ==
    /\ today \in Days \cup QuarterDays
    /\ pc = "idle"
    /\ call = NoCall
    /\ result = None
    /\ pending = None
    /\ log = <<>>
    /\ prev = None

\* get_date_range_for_quarter(offset)
GetDateRangeForQuarter ==
    /\ pc = "idle"
    /\ \E k \in QuarterOffsets :
          /\ call' = [op |-> "get_date_range_for_quarter", args |-> [offset |-> k],
                      seen |-> <<today>>]
          /\ result' = get_date_range_for_quarter(today, k)
    /\ pc' = "returned"
    /\ UNCHANGED <<today, pending, prev, log>>

NextQuarter ==
    \/ GetDateRangeForQuarter
    \/ Return

SpecQuarter == InitQuarter /\ [][NextQuarter]_vars

(***************************************************************************)
(* src/parsers/time_parser.py and the /search endpoint of src/main.py      *)
(***************************************************************************)
\* the alternatives of (day|hour|week|month|minute)s? a word begins with
TimeUnitOf ==
    [day |-> "day", days |-> "day", hour |-> "hour", hours |-> "hour",
     week |-> "week", weeks |-> "week", month |-> "month", months |-> "month",
     minute |-> "minute", minutes |-> "minute"]

\* re.search(r'last\s+(\d+)\s+(day|hour|week|month|minute)s?', query): the
\* position of the leftmost "last <digits> <unit>", 0 when there is none
time_pattern_match(words) ==
    LET Hit(i) == /\ words[i] = "last"
                  /\ is_numeric(words[i + 1])
                  /\ words[i + 2] \in DOMAIN TimeUnitOf
        hits == {i \in 1..(Len(words) - 2) : Hit(i)}
    IN  IF hits = {} THEN 0 ELSE CHOOSE i \in hits : \A j \in hits : i <= j

\* lines 16-33 of parse_time, 68-87 of search: is_range, time and time_range
\* for a matched quantity and unit, with t the date of datetime.now()
time_fields(t, time_quantity, time_unit) ==
    IF time_unit \in {"day", "week", "month"}
    THEN LET time_delta == CASE time_unit = "day" -> time_quantity
                             [] time_unit = "week" -> 7 * time_quantity
                             [] time_unit = "month" -> time_quantity * 30
             calculated_start_date == AddDays(t, -time_delta)
         IN  IF IsExc(calculated_start_date) THEN calculated_start_date
             ELSE [is_range |-> TRUE, time |-> None,
                   time_range |-> [start_date |-> strftime_dmY(calculated_start_date),
                                   end_date |-> strftime_dmY(t)]]
    ELSE [is_range |-> FALSE, time |-> strftime_dmY(t), time_range |-> None]

\* parse_time(query)
parse_time(t, query) ==
    LET i == time_pattern_match(query.words)
    IN  IF i = 0 THEN [is_range |-> FALSE, time |-> None, time_range |-> None]
        ELSE time_fields(t, IntLiterals[query.words[i + 1]],
                         TimeUnitOf[query.words[i + 2]])

\* the age pattern of search: the leftmost "<digits> years", with the
\* comparator word before it
age_fields(words) ==
    LET hits == {i \in 1..(Len(words) - 1) :
                    is_numeric(words[i]) /\ words[i + 1] = "years"}
    IN  IF hits = {} THEN [age |-> None, age_limit_identifier |-> None]
        ELSE LET i == CHOOSE k \in hits : \A j \in hits : k <= j
                 before == IF i > 1 THEN words[i - 1] ELSE ""
                 before2 == IF i > 2 THEN words[i - 2] ELSE ""
             IN  [age |-> IntLiterals[words[i]],
                  age_limit_identifier |->
                      IF before \in {"above", "over"}
                         \/ (before2 = "greater" /\ before = "than") THEN ">="
                      ELSE IF before \in {"below", "under"}
                              \/ (before2 = "less" /\ before = "than") THEN "<="
                      ELSE None]

\* "female" in query, else "male" in query
gender_field(words) ==
    IF \E i \in DOMAIN words : words[i] \in {"female", "females"} THEN "female"
    ELSE IF \E i \in DOMAIN words : words[i] \in {"male", "males"} THEN "male"
    ELSE None

\* search(q): the query is lower-cased, then age, gender and time are read
search(t, query) ==
    LET normalized_query == words_of(query)
        i == time_pattern_match(normalized_query)
        tf == IF i = 0 THEN [is_range |-> FALSE, time |-> None, time_range |-> None]
              ELSE time_fields(t, IntLiterals[normalized_query[i + 1]],
                               TimeUnitOf[normalized_query[i + 2]])
    IN  IF IsExc(tf) THEN tf
        ELSE [age |-> age_fields(normalized_query).age,
              age_limit_identifier |-> age_fields(normalized_query).age_limit_identifier,
              gender |-> gender_field(normalized_query),
              diagnosis |-> None,
              is_range |-> tf.is_range, time |-> tf.time, time_range |-> tf.time_range]

\* the search texts
SearchQueries ==
    {Text(<<"last", "1", "month">>), Text(<<"last", "2", "months">>),
     Text(<<"last", "3", "months">>), Text(<<"last", "3", "days">>),
     Text(<<"last", "2", "weeks">>), Text(<<"last", "5", "hours">>),
     Text(<<"last", "30", "minutes">>), Text(<<"last", "month">>),
     Text(<<"male", "above", "45", "years", "last", "3", "months">>),
     Text(<<"females", "less", "than", "30", "years", "last", "1", "month">>),
     Text(<<"patients", "over", "45", "years">>), Text(<<>>)}

\* parse_time(query)
ParseTime ==
    /\ pc = "idle"
    /\ \E query \in SearchQueries :
          /\ call' = [op |-> "parse_time", args |-> [query |-> query], seen |-> <<today>>]
          /\ result' = parse_time(today, query)
    /\ pc' = "returned"
    /\ UNCHANGED <<today, pending, prev, log>>

\* GET /search?q=query
Search ==
    /\ pc = "idle"
    /\ \E query \in SearchQueries :
          /\ call' = [op |-> "search", args |-> [query |-> query], seen |-> <<today>>]
          /\ result' = search(today, query)
    /\ pc' = "returned"
    /\ UNCHANGED <<today, pending, prev, log>>

NextSearch ==
    \/ ParseTime
    \/ Search
    \/ Return

SpecSearch == Init /\ [][NextSearch]_vars

(***************************************************************************)
(* The process_date functions that take a base date string                 *)
(***************************************************************************)
\* the base date strings sent to the period functions: none, malformed ones,
\* and dates in months of 28, 29, 30 and 31 days, in December and in the last
\* month of the calendar
PeriodBaseStrings ==
    BaseDateStrings
    \cup {[str |-> "date", fields |-> <<28, 2, 2023>>],
          [str |-> "date", fields |-> <<30, 4, 2024>>],
          [str |-> "date", fields |-> <<15, 12, 2024>>],
          [str |-> "date", fields |-> <<31, 12, 2024>>],
          [str |-> "date", fields |-> <<15, 12, 9999>>]}

Periods == {"week", "month", "year", "quarter"}

\* get_start_of_period(period, base_date_str)
GetStartOfPeriod ==
    /\ pc = "idle"
    /\ \E p \in Periods, b \in PeriodBaseStrings :
          /\ call' = [op |-> "get_start_of_period",
                      args |-> [period |-> p, base_date_str |-> b], seen |-> <<today>>]
          /\ result' = get_start_of_period(today, p, b)
    /\ pc' = "returned"
    /\ UNCHANGED <<today, pending, prev, log>>

\* get_end_of_period(period, base_date_str)
GetEndOfPeriod ==
    /\ pc = "idle"
    /\ \E p \in Periods, b \in PeriodBaseStrings :
          /\ call' = [op |-> "get_end_of_period",
                      args |-> [period |-> p, base_date_str |-> b], seen |-> <<today>>]
          /\ result' = get_end_of_period(today, p, b)
    /\ pc' = "returned"
    /\ UNCHANGED <<today, pending, prev, log>>

NextPeriod ==
    \/ GetStartOfPeriod
    \/ GetEndOfPeriod
    \/ GetDateWithOffset
    \/ GetDateOfWeekday
    \/ Return

SpecPeriod == Init /\ [][NextPeriod]_vars

(***************************************************************************)
(* Properties                                                              *)
(***************************************************************************)
\* the date a "%Y-%m-%d" text denotes
DateOfYmd(text) ==
    [year |-> text.fields[1], month |-> text.fields[2], day |-> text.fields[3]]

\* the date a "%d-%m-%Y" text denotes
DateOfDmy(text) ==
    [year |-> text.fields[3], month |-> text.fields[2], day |-> text.fields[1]]

Returned(op) == pc = "returned" /\ call.op = op

\* d lies on weekday w (Monday = 0), n days before (n < 0) or after (n > 0)
\* base, with 1 <= |n| <= 7, and exactly 7 when base itself lies on w
NearestWeekday(d, base, w, sign) ==
    LET dist == sign * (ToOrdinal(d) - ToOrdinal(base))
    IN  /\ weekday(d) = w
        /\ dist \in 1..7
        /\ (weekday(base) = w => dist = 7)

\* C1: specific_weekday with a negative offset_value gives the date on weekday
\* w that is 1 to 7 days before today, with a positive offset_value the one 1
\* to 7 days after today, and 7 days (never 0) when today lies on w; the same
\* holds for get_date_of_weekday(w, 'last' | 'next', base) relative to base.
C1_WeekdayNonZeroDistance ==
    /\ ( /\ Returned("get_single_date")
         /\ call.args.reference_point = "specific_weekday"
         /\ Lower(call.args.offset_unit) \in WeekdayTokens
         /\ call.args.offset_value # 0 )
       => /\ result.str = "date"
          /\ NearestWeekday(DateOfYmd(result), today,
                            weekday_names[Lower(call.args.offset_unit)],
                            IF call.args.offset_value < 0 THEN -1 ELSE 1)
    /\ ( /\ Returned("get_date_of_weekday")
         /\ Lower(call.args.weekday_name) \in WeekdayTokens
         /\ call.args.direction \in {"last", "next"}
         /\ ~IsExc(base_date_of(today, call.args.base_date_str)) )
       => /\ result.str = "date"
          /\ NearestWeekday(DateOfDmy(result),
                            base_date_of(today, call.args.base_date_str),
                            weekday_names[Lower(call.args.weekday_name)],
                            IF call.args.direction = "last" THEN -1 ELSE 1)

\* C1 witness: "last <today's own weekday>" answered with the day a week ago
C1_Witness ==
    /\ Returned("get_single_date")
    /\ call.args.reference_point = "specific_weekday"
    /\ call.args.offset_value < 0
    /\ Lower(call.args.offset_unit) \in WeekdayTokens
    /\ weekday_names[Lower(call.args.offset_unit)] = weekday(today)
    /\ result = strftime_Ymd(AddDays(today, -7))

BothStartOfWeek ==
    /\ Returned("get_date_range")
    /\ call.args.start_reference = "start_of_week"
    /\ call.args.end_reference = "start_of_week"

\* C2 as claimed: a range over two start_of_week references runs from a
\* Monday to a Sunday and covers exactly 7 days, whatever the offsets are.
C2_AlwaysOneWeek ==
    BothStartOfWeek =>
        /\ "error" \notin DOMAIN result
        /\ weekday(DateOfYmd(result.start_date)) = 0
        /\ weekday(DateOfYmd(result.end_date)) = 6
        /\ ToOrdinal(DateOfYmd(result.end_date))
               = ToOrdinal(DateOfYmd(result.start_date)) + 6

\* C2 amended: a range over two start_of_week references starts on a Monday
\* and ends on a Sunday, end_date being 6 days after the Monday the end
\* reference evaluates to; it covers exactly 7 days if and only if both
\* references evaluate to the same Monday.
C2_MondayToSunday ==
    BothStartOfWeek =>
        LET s0 == parse_reference_point(call.seen[1], call.args.start_reference,
                      call.args.start_offset_value, call.args.start_offset_unit)
            e0 == parse_reference_point(call.seen[2], call.args.end_reference,
                      call.args.end_offset_value, call.args.end_offset_unit)
        IN  /\ "error" \notin DOMAIN result
            /\ weekday(DateOfYmd(result.start_date)) = 0
            /\ weekday(DateOfYmd(result.end_date)) = 6
            /\ ToOrdinal(DateOfYmd(result.end_date)) = ToOrdinal(e0) + 6
            /\ (ToOrdinal(DateOfYmd(result.end_date))
                    = ToOrdinal(DateOfYmd(result.start_date)) + 6) <=> (s0 = e0)

\* C2 witness: last week (offset -1, unit weeks) to this week (unit this): a
\* Monday-to-Sunday range of 14 days
C2_Witness ==
    /\ BothStartOfWeek
    /\ call.args.start_offset_value = -1
    /\ call.args.start_offset_unit = "weeks"
    /\ call.args.end_offset_unit = "this"
    /\ "error" \notin DOMAIN result
    /\ ToOrdinal(DateOfYmd(result.end_date))
           = ToOrdinal(DateOfYmd(result.start_date)) + 13

\* the month k calendar months from the month of d, as <<year, month>>
MonthAway(d, k) ==
    LET idx == 12 * d.year + (d.month - 1) + k
    IN  <<idx \div 12, (idx % 12) + 1>>

\* C3: a range over two start_of_month references with unit months starts on
\* day 1 of the month start_offset_value months from today's month and ends
\* on the last calendar day of the month end_offset_value months from it.
C3_FullMonths ==
    ( /\ Returned("get_date_range")
      /\ call.args.start_reference = "start_of_month"
      /\ call.args.end_reference = "start_of_month"
      /\ call.args.start_offset_unit = "months"
      /\ call.args.end_offset_unit = "months" )
    => LET sm == MonthAway(today, call.args.start_offset_value)
           em == MonthAway(today, call.args.end_offset_value)
       IN  /\ "error" \notin DOMAIN result
           /\ result.start_date.fields = <<sm[1], sm[2], 1>>
           /\ result.end_date.fields = <<em[1], em[2], monthrange(em[1], em[2])>>

\* C3 witness: in January 2024, last month to next month is 2023-12-01 to
\* 2024-02-29 (a year boundary and a 29-day month)
C3_Witness ==
    /\ Returned("get_date_range")
    /\ call.args.start_reference = "start_of_month"
    /\ call.args.end_reference = "start_of_month"
    /\ "error" \notin DOMAIN result
    /\ result.start_date.fields = <<2023, 12, 1>>
    /\ result.end_date.fields = <<2024, 2, 29>>

\* C4: specific_day_of_month with a day number d >= 1 and month offset m lies
\* in the month m months from today's month, on day min(d, length of that
\* month).
C4_DayClamped ==
    ( /\ Returned("get_single_date")
      /\ call.args.reference_point = "specific_day_of_month"
      /\ call.args.offset_unit \in DOMAIN IntLiterals
      /\ IntLiterals[call.args.offset_unit] >= 1 )
    => LET tm == MonthAway(today, call.args.offset_value)
           d == IntLiterals[call.args.offset_unit]
           last == monthrange(tm[1], tm[2])
       IN  /\ result.str = "date"
           /\ result.fields = <<tm[1], tm[2], IF d < last THEN d ELSE last>>

\* C4 witness: day 31 asked of a 30-day month and of a 28-day February
C4_Witness ==
    /\ Returned("get_single_date")
    /\ call.args.reference_point = "specific_day_of_month"
    /\ call.args.offset_unit = "31"
    /\ result.str = "date"
    /\ result.fields \in {<<2024, 4, 30>>, <<2025, 2, 28>>, <<2023, 2, 28>>}

\* C10: reference point today with v days is today + v days and with v weeks
\* today + 7*v days; get_date_with_offset(v, 'days' | 'weeks', base) shifts
\* base by the same number of days.
C10_ExactDayShift ==
    /\ ( /\ Returned("get_single_date")
         /\ call.args.reference_point = "today"
         /\ call.args.offset_unit \in {"days", "weeks"} )
       => /\ result.str = "date"
          /\ ToOrdinal(DateOfYmd(result))
                 = ToOrdinal(today)
                   + (IF call.args.offset_unit = "weeks" THEN 7 ELSE 1)
                     * call.args.offset_value
    /\ ( /\ Returned("get_date_with_offset")
         /\ call.args.unit \in {"days", "weeks"}
         /\ ~IsExc(base_date_of(today, call.args.base_date_str)) )
       => /\ ~IsExc(result)
          /\ result.str = "date"
          /\ ToOrdinal(DateOfDmy(result))
                 = ToOrdinal(base_date_of(today, call.args.base_date_str))
                   + (IF call.args.unit = "weeks" THEN 7 ELSE 1) * call.args.offset

\* C10 witness: a shift in weeks from today that lands in the previous year
C10_Witness ==
    /\ Returned("get_single_date")
    /\ call.args.reference_point = "today"
    /\ call.args.offset_unit = "weeks"
    /\ call.args.offset_value < 0
    /\ result.str = "date"
    /\ result.fields[1] = today.year - 1
    /\ ToOrdinal(DateOfYmd(result)) = ToOrdinal(today) + 7 * call.args.offset_value

\* the query names a value outside the calculator's vocabulary
OutOfDomain(reference, unit) ==
    \/ reference \notin References
    \/ reference = "specific_month" /\ Lower(unit) \notin DOMAIN month_names
    \/ reference = "specific_weekday" /\ Lower(unit) \notin DOMAIN weekday_names
    \/ reference = "today" /\ unit \notin {"days", "weeks", "months", "years"}
    \/ reference = "start_of_week" /\ unit \notin {"weeks", "this"}
    \/ reference = "start_of_month" /\ unit # "months"
    \/ reference = "start_of_year" /\ unit # "years"

\* C7: a query with an out-of-domain value (unknown month or weekday name, a
\* unit that does not belong to the reference point, an unknown reference
\* point) gets an error from get_single_date / get_date_range, not a date.
C7_InvalidParameterReported ==
    /\ ( /\ Returned("get_single_date")
         /\ OutOfDomain(call.args.reference_point, call.args.offset_unit) )
       => result.str = "Error"
    /\ ( /\ Returned("get_date_range")
         /\ \/ OutOfDomain(call.args.start_reference, call.args.start_offset_unit)
            \/ OutOfDomain(call.args.end_reference, call.args.end_offset_unit) )
       => DOMAIN result = {"error"}

\* C5: every resolution call observes one today: the start_date and end_date
\* it returns are both computed from the same system date, also when midnight
\* passes while the call runs.
C5_OneTodayPerCall ==
    /\ ( /\ pc = "returned"
         /\ call.op \in {"get_single_date", "get_date_range", "get_week_range",
                         "get_month_range"} )
       => \A i, j \in DOMAIN call.seen : call.seen[i] = call.seen[j]
    /\ Returned("get_date_range")
       => \E i \in DOMAIN call.seen :
              result = get_date_range(call.seen[i], call.seen[i], call.args)

\* C6: two evaluations of the same query with the same arguments return the
\* same result.
C6_SameArgumentsSameResult ==
    (pc = "returned" /\ prev # None) => result = prev

IsDateText(text) == text.str = "date"

\* C8: a result of get_date_range, get_week_range or get_month_range carries
\* either both dates and no error or an error and no dates; a result that
\* process_query tags single_date or date_range carries resolved dates and
\* never an error text or an error key.
C8_NoPartialResult ==
    /\ ( /\ pc = "returned"
         /\ call.op \in {"get_date_range", "get_week_range", "get_month_range"} )
       => \/ DOMAIN result = {"error"}
          \/ /\ DOMAIN result = {"start_date", "end_date"}
             /\ IsDateText(result.start_date)
             /\ IsDateText(result.end_date)
    /\ (Returned("process_query") /\ "type" \in DOMAIN result)
       => /\ "error" \notin DOMAIN result
          /\ result.type = "single_date" => IsDateText(result.date)
          /\ result.type = "date_range"
             => /\ DOMAIN result = {"type", "start_date", "end_date"}
                /\ IsDateText(result.start_date)
                /\ IsDateText(result.end_date)

\* no tier of the classifier matches the query
Unmatched(query) ==
    \/ query.str # "text"
    \/ LET words == [i \in 1..Len(query.words) |-> Lower(query.words[i])]
       IN  /\ tier_keyword(words) = None
           /\ tier_next_last(words) = None
           /\ tier_quantity(words) = None

\* the inputs the tests call invalid
InvalidInTests ==
    {Text(<<"invalid", "query">>), Text(<<>>), None, [str |-> "int"],
     Text(<<"invalid", "date", "query">>), Text(<<"random", "text">>)}

\* C9: for a text that matches no tier (the empty string and a non-string
\* included) _parse_date_query returns None and calculate_date the 'Invalid
\* query format' message, never a date or a default reference point.
C9_UnmatchedIsUnrecognized ==
    /\ (Returned("calculate_date")
          /\ (Unmatched(call.args.query) \/ call.args.query \in InvalidInTests))
       => /\ call.parsed = None
          /\ result = Message("Invalid query format. Please use a valid format.")
    /\ (Returned("calculate_date") /\ call.parsed = None) => result.str # "date"

\* C9 witness: a typo in the unit ("3 dayz ago") is answered with the message
C9_Witness ==
    /\ Returned("calculate_date")
    /\ call.args.query = Text(<<"3", "dayz", "ago">>)
    /\ call.parsed = None
    /\ result.str = "message"

\* d is date base moved k calendar months: in the month k months from base's
\* month, on base's day of the month, or on the last day of that month when
\* the month is shorter
MonthsFrom(d, base, k) ==
    LET ym == MonthAway(base, k)
        last == monthrange(ym[1], ym[2])
    IN  /\ d.year = ym[1]
        /\ d.month = ym[2]
        /\ d.day = IF base.day <= last THEN base.day ELSE last

\* the base date of a get_date_with_offset call: the parsed base_date_str, or
\* the system date when none is given
BaseOfCall == base_date_of(call.seen[1], call.args.base_date_str)

\* C11: reference today with v months (years) gives the date in the month
\* exactly v (12 v) calendar months away, on the same day of the month when
\* the target month has it and on its last day otherwise, never in the month
\* after; the same for get_date_with_offset on its base date.
C11_MonthsYearsClamped ==
    /\ ( /\ Returned("get_single_date")
         /\ call.args.reference_point = "today"
         /\ call.args.offset_unit \in {"months", "years"}
         /\ IsDateText(result) )
       => MonthsFrom(DateOfYmd(result), call.seen[1],
                     IF call.args.offset_unit = "months" THEN call.args.offset_value
                     ELSE 12 * call.args.offset_value)
    /\ ( /\ Returned("get_date_with_offset")
         /\ call.args.unit \in {"months", "years"}
         /\ ~IsExc(result)
         /\ IsDateText(result) )
       => MonthsFrom(DateOfDmy(result), BaseOfCall,
                     IF call.args.unit = "months" THEN call.args.offset
                     ELSE 12 * call.args.offset)

\* C11 witness: on 2024-01-31 one month ahead is 2024-02-29, the last day of
\* February
C11_Witness ==
    /\ Returned("get_single_date")
    /\ call.args = [reference_point |-> "today", offset_value |-> 1, offset_unit |-> "months"]
    /\ call.seen[1] = [year |-> 2024, month |-> 1, day |-> 31]
    /\ result = strftime_Ymd([year |-> 2024, month |-> 2, day |-> 29])

\* d is the Monday of the week containing t, moved k weeks: a Monday, and
\* moved back k weeks it is at most 6 days before t and not after it
MondayOfWeek(d, t, k) ==
    LET back == ToOrdinal(t) - (ToOrdinal(d) - 7 * k)
    IN  weekday(d) = 0 /\ back \in 0..6

\* C12: reference start_of_week with unit weeks and value v gives the Monday
\* of the week containing today moved exactly 7 v days; with unit "this" it
\* gives the Monday of the current week, the result for value 0.
C12_WeekStartShift ==
    ( /\ Returned("get_single_date")
      /\ call.args.reference_point = "start_of_week"
      /\ call.args.offset_unit \in {"weeks", "this"}
      /\ IsDateText(result) )
    => /\ call.args.offset_unit = "weeks" =>
              MondayOfWeek(DateOfYmd(result), call.seen[1], call.args.offset_value)
       /\ call.args.offset_unit = "this" =>
              /\ MondayOfWeek(DateOfYmd(result), call.seen[1], 0)
              /\ result = get_single_date(call.seen[1], "start_of_week", 0, "weeks")

\* C12 witness: on Wednesday 2024-01-31, "this" with value 2 is Monday
\* 2024-01-29
C12_Witness ==
    /\ Returned("get_single_date")
    /\ call.args = [reference_point |-> "start_of_week", offset_value |-> 2, offset_unit |-> "this"]
    /\ call.seen[1] = [year |-> 2024, month |-> 1, day |-> 31]
    /\ result = strftime_Ymd([year |-> 2024, month |-> 1, day |-> 29])

\* the months of the year in calendar order, each with its three-letter
\* abbreviation
MonthsInOrder ==
    << <<"january", "jan">>, <<"february", "feb">>, <<"march", "mar">>,
       <<"april", "apr">>, <<"may", "may">>, <<"june", "jun">>, <<"july", "jul">>,
       <<"august", "aug">>, <<"september", "sep">>, <<"october", "oct">>,
       <<"november", "nov">>, <<"december", "dec">> >>

\* token names a month, in any letter case
KnownMonth(token) ==
    \E n \in 1..12 : Lower(token) \in {MonthsInOrder[n][1], MonthsInOrder[n][2]}

\* the number 1..12 of the month a known token names
MonthNumber(token) ==
    CHOOSE n \in 1..12 : Lower(token) \in {MonthsInOrder[n][1], MonthsInOrder[n][2]}

\* C13: reference specific_month with a known month name or abbreviation, in
\* any letter case, and year offset v gives day 1 of that month in the year
\* today.year + v, whatever today's month and day are.
C13_SpecificMonthFirstDay ==
    ( /\ Returned("get_single_date")
      /\ call.args.reference_point = "specific_month"
      /\ KnownMonth(call.args.offset_unit) )
    => result = strftime_Ymd([year |-> call.seen[1].year + call.args.offset_value,
                              month |-> MonthNumber(call.args.offset_unit),
                              day |-> 1])

\* C13 witness: "FEB" with year offset -1 asked on 2024-03-01 gives 2023-02-01
C13_Witness ==
    /\ Returned("get_single_date")
    /\ call.args = [reference_point |-> "specific_month", offset_value |-> -1, offset_unit |-> "FEB"]
    /\ call.seen[1] = [year |-> 2024, month |-> 3, day |-> 1]
    /\ result = strftime_Ymd([year |-> 2023, month |-> 2, day |-> 1])

\* both ends of the get_date_range call are specific_month with known tokens
BothSpecificMonth ==
    /\ Returned("get_date_range")
    /\ call.args.start_reference = "specific_month"
    /\ call.args.end_reference = "specific_month"
    /\ KnownMonth(call.args.start_offset_unit)
    /\ KnownMonth(call.args.end_offset_unit)

\* C14: a range over two specific_month references with differing month
\* tokens starts on day 1 of the start month in year today.year + start
\* offset and ends on the last day of the end month in year today.year + end
\* offset (29 February in a leap year).
C14_MonthSpan ==
    (BothSpecificMonth /\ call.args.start_offset_unit # call.args.end_offset_unit)
    => LET ys == call.seen[1].year + call.args.start_offset_value
           ye == call.seen[2].year + call.args.end_offset_value
           ms == MonthNumber(call.args.start_offset_unit)
           me == MonthNumber(call.args.end_offset_unit)
       IN  /\ DOMAIN result = {"start_date", "end_date"}
           /\ result.start_date = strftime_Ymd([year |-> ys, month |-> ms, day |-> 1])
           /\ result.end_date =
                  strftime_Ymd([year |-> ye, month |-> me, day |-> monthrange(ye, me)])

\* C14 witness: december last year to february this year, asked in 2024, is
\* 2023-12-01 to 2024-02-29
C14_Witness ==
    /\ BothSpecificMonth
    /\ call.args.start_offset_unit = "december" /\ call.args.start_offset_value = -1
    /\ call.args.end_offset_unit = "february" /\ call.args.end_offset_value = 0
    /\ result = [start_date |-> strftime_Ymd([year |-> 2023, month |-> 12, day |-> 1]),
                 end_date |-> strftime_Ymd([year |-> 2024, month |-> 2, day |-> 29])]

\* process_query was given a date_range whose two ends are specific_month
\* with known tokens, complete parameters and a year inside the calendar
ClientBothSpecificMonth ==
    /\ Returned("process_query")
    /\ HasAll(call.args, <<"query_type", "parameters">>)
    /\ call.args.query_type = "date_range"
    /\ HasAll(call.args.parameters,
              <<"start_reference", "start_offset_value", "start_offset_unit",
                "end_reference", "end_offset_value", "end_offset_unit">>)
    /\ call.args.parameters.start_reference = "specific_month"
    /\ call.args.parameters.end_reference = "specific_month"
    /\ KnownMonth(call.args.parameters.start_offset_unit)
    /\ KnownMonth(call.args.parameters.end_offset_unit)
    /\ call.seen[1].year + call.args.parameters.start_offset_value \in 1..9999

\* C15: a date_range query over two specific_month references naming the
\* same month with the same year offset resolves to the whole calendar
\* month: day 1 to the last day of that month in year today.year + offset.
C15_SameMonthFullMonth ==
    ( /\ ClientBothSpecificMonth
      /\ MonthNumber(call.args.parameters.start_offset_unit)
            = MonthNumber(call.args.parameters.end_offset_unit)
      /\ call.args.parameters.start_offset_value
            = call.args.parameters.end_offset_value )
    => LET y == call.seen[1].year + call.args.parameters.start_offset_value
           m == MonthNumber(call.args.parameters.start_offset_unit)
       IN  result = [type |-> "date_range",
                     start_date |-> strftime_Ymd([year |-> y, month |-> m, day |-> 1]),
                     end_date |-> strftime_Ymd([year |-> y, month |-> m,
                                                day |-> monthrange(y, m)])]

\* C15 witness: february this year at both ends, asked in 2024, is
\* 2024-02-01 to 2024-02-29
C15_Witness ==
    /\ ClientBothSpecificMonth
    /\ call.args.parameters.start_offset_unit = "february"
    /\ call.args.parameters.end_offset_unit = "february"
    /\ call.args.parameters.start_offset_value = 0
    /\ call.args.parameters.end_offset_value = 0
    /\ result.end_date = strftime_Ymd([year |-> 2024, month |-> 2, day |-> 29])

\* the pairs of references whose end date get_date_range adjusts
AdjustedPair(q) ==
    \/ q.start_reference = "start_of_week" /\ q.end_reference = "start_of_week"
    \/ q.start_reference = "start_of_month" /\ q.end_reference = "start_of_month"
    \/ /\ q.start_reference = "specific_month"
       /\ q.end_reference = "specific_month"
       /\ q.start_offset_unit # q.end_offset_unit

\* C16: for every other pair of references get_date_range returns the two
\* single dates of its ends, each evaluated on its own, unchanged and in the
\* order given, also when the end lies before the start.
C16_OtherPairsAsIs ==
    (Returned("get_date_range") /\ ~AdjustedPair(call.args))
    => result = [start_date |-> get_single_date(call.seen[1], call.args.start_reference,
                                                call.args.start_offset_value,
                                                call.args.start_offset_unit),
                 end_date |-> get_single_date(call.seen[2], call.args.end_reference,
                                              call.args.end_offset_value,
                                              call.args.end_offset_unit)]

\* C16 witness: tomorrow to yesterday is returned with the end before the
\* start
C16_Witness ==
    /\ Returned("get_date_range")
    /\ call.args = RangeQuery([reference |-> "today", offset_value |-> 1, offset_unit |-> "days"],
                              [reference |-> "today", offset_value |-> -1, offset_unit |-> "days"])
    /\ IsDateText(result.start_date) /\ IsDateText(result.end_date)
    /\ ToOrdinal(DateOfYmd(result.end_date)) = ToOrdinal(DateOfYmd(result.start_date)) - 2

\* the query of the calculate_date call is the two words "last"/"next" and a
\* weekday name
LastNextWeekday ==
    /\ Returned("calculate_date")
    /\ call.args.query.str = "text"
    /\ Len(call.args.query.words) = 2
    /\ Lower(call.args.query.words[1]) \in {"last", "next"}
    /\ Lower(call.args.query.words[2]) \in WeekdayTokens

\* the calculate_date call was made on day t with the words ws and returned
\* the text of date d
Resolved(t, ws, d) ==
    (Returned("calculate_date") /\ call.seen[1] = t /\ call.args.query = Text(ws))
    => result = strftime_Ymd(d)

\* C17: "last <weekday>" and "next <weekday>" are classified as
\* specific_weekday and resolve to one date, the nearest day on that weekday
\* strictly before / strictly after today, never a date counted from the
\* start of a week; the dated examples of the specification hold.
C17_LastNextWeekdayNearest ==
    /\ LastNextWeekday =>
          LET w == Lower(call.args.query.words[2])
              dir == Lower(call.args.query.words[1])
          IN  /\ call.parsed = Parsed(1, w, dir)
              /\ classify(call.args.query).reference_point = "specific_weekday"
              /\ IsDateText(result)
              /\ NearestWeekday(DateOfYmd(result), call.seen[1], weekday_names[w],
                                IF dir = "last" THEN -1 ELSE 1)
    /\ Resolved([year |-> 2025, month |-> 7, day |-> 19], <<"last", "Monday">>,
                [year |-> 2025, month |-> 7, day |-> 14])
    /\ Resolved([year |-> 2025, month |-> 7, day |-> 19], <<"last", "thursday">>,
                [year |-> 2025, month |-> 7, day |-> 17])
    /\ Resolved([year |-> 2025, month |-> 7, day |-> 19], <<"last", "friday">>,
                [year |-> 2025, month |-> 7, day |-> 18])
    /\ Resolved([year |-> 2025, month |-> 7, day |-> 17], <<"next", "monday">>,
                [year |-> 2025, month |-> 7, day |-> 21])
    /\ Resolved([year |-> 2025, month |-> 7, day |-> 17], <<"last", "friday">>,
                [year |-> 2025, month |-> 7, day |-> 11])

\* C17 witness: "last Monday" asked on Saturday 2025-07-19 is 2025-07-14
C17_Witness ==
    /\ LastNextWeekday
    /\ call.seen[1] = [year |-> 2025, month |-> 7, day |-> 19]
    /\ call.args.query = Text(<<"last", "Monday">>)
    /\ result = strftime_Ymd([year |-> 2025, month |-> 7, day |-> 14])

\* the words of the query of the calculate_date call, lower-cased
QueryWords == [i \in 1..Len(call.args.query.words) |-> Lower(call.args.query.words[i])]

\* the result of the calculate_date call is the system date moved k days
DaysFromToday(k) ==
    /\ IsDateText(result)
    /\ ToOrdinal(DateOfYmd(result)) = ToOrdinal(call.seen[1]) + k

QuantityPhrase ==
    /\ Returned("calculate_date")
    /\ call.args.query.str = "text"
    /\ tier_keyword(QueryWords) = None
    /\ tier_next_last(QueryWords) = None
    /\ tier_quantity(QueryWords) # None

\* the result of the calculate_date call is the system date moved k units
UnitsFromToday(k, unit) ==
    /\ IsDateText(result)
    /\ CASE unit = "days" -> ToOrdinal(DateOfYmd(result)) = ToOrdinal(call.seen[1]) + k
         [] unit = "weeks" -> ToOrdinal(DateOfYmd(result)) = ToOrdinal(call.seen[1]) + 7 * k
         [] unit = "months" -> MonthsFrom(DateOfYmd(result), call.seen[1], k)
         [] unit = "years" -> MonthsFrom(DateOfYmd(result), call.seen[1], 12 * k)

\* C19: a quantity phrase with quantity n resolves to today minus n units for
\* the directions ago, before, back, last and to today plus n units for from
\* now, after, next, in, in both word orders: "in 3 weeks" is the date of "3
\* weeks from now", "back 5 days" the date of "5 days ago", and "3 days ago"
\* asked on 2025-07-19 is 2025-07-16.
C19_DirectionSigns ==
    /\ QuantityPhrase =>
          /\ call.parsed.direction \in PastDirections =>
                UnitsFromToday(-call.parsed.quantity, UnitWords[call.parsed.unit])
          /\ call.parsed.direction \in FutureDirections =>
                UnitsFromToday(call.parsed.quantity, UnitWords[call.parsed.unit])
          /\ call.parsed.direction \in PastDirections \cup FutureDirections
    /\ (Returned("calculate_date") /\ call.args.query = Text(<<"in", "3", "weeks">>))
          => /\ result = calculate_date(call.seen[1], Text(<<"3", "weeks", "from", "now">>))
             /\ UnitsFromToday(3, "weeks")
    /\ (Returned("calculate_date") /\ call.args.query = Text(<<"back", "5", "days">>))
          => /\ result = calculate_date(call.seen[1], Text(<<"5", "days", "ago">>))
             /\ UnitsFromToday(-5, "days")
    /\ Resolved([year |-> 2025, month |-> 7, day |-> 19], <<"3", "days", "ago">>,
                [year |-> 2025, month |-> 7, day |-> 16])
    /\ Resolved([year |-> 2025, month |-> 7, day |-> 17], <<"2", "weeks", "from", "now">>,
                [year |-> 2025, month |-> 7, day |-> 31])

\* C19 witness: "back 5 days" asked on 2024-03-03 is 2024-02-27
C19_Witness ==
    /\ QuantityPhrase
    /\ call.args.query = Text(<<"back", "5", "days">>)
    /\ call.seen[1] = [year |-> 2024, month |-> 3, day |-> 3]
    /\ result = strftime_Ymd([year |-> 2024, month |-> 2, day |-> 27])

\* the count of months from year 0 to the first month of the quarter holding
\* date d
QuarterStartMonths(d) == 12 * d.year + 3 * ((d.month - 1) \div 3)

\* C20: get_date_range_for_quarter(k) returns day 1 of the first month and
\* the last day of the third month of the quarter k quarters from the one
\* holding today: the start is in month 1, 4, 7 or 10, exactly 3 k months
\* from the start of today's quarter across any number of year ends, and the
\* end closes the same quarter of the same year.
C20_QuarterBounds ==
    (Returned("get_date_range_for_quarter") /\ ~IsExc(result))
    => LET s == DateOfDmy(result.start_date)
           e == DateOfDmy(result.end_date)
       IN  /\ DOMAIN result = {"start_date", "end_date"}
           /\ s.day = 1
           /\ s.month \in {1, 4, 7, 10}
           /\ QuarterStartMonths(s) = QuarterStartMonths(call.seen[1]) + 3 * call.args.offset
           /\ 12 * s.year + (s.month - 1) = QuarterStartMonths(s)
           /\ e.year = s.year
           /\ e.month = s.month + 2
           /\ e.day = monthrange(e.year, e.month)

\* C20 witness: five quarters after 2024-12-31 is the first quarter of 2026
C20_Witness ==
    /\ Returned("get_date_range_for_quarter")
    /\ call.seen[1] = [year |-> 2024, month |-> 12, day |-> 31]
    /\ call.args.offset = 5
    /\ result = [start_date |-> strftime_dmY([year |-> 2026, month |-> 1, day |-> 1]),
                 end_date |-> strftime_dmY([year |-> 2026, month |-> 3, day |-> 31])]

\* a week call of a period function that returned a date
WeekPeriod(op) ==
    /\ Returned(op)
    /\ call.args.period = "week"
    /\ IsDateText(result)

\* C21: for every base date d the start of its week is the Monday on or
\* before d and the end the Sunday on or after d, each at most 6 days from d;
\* the end is exactly 6 days after the start, so d lies between them.
C21_WeekBounds ==
    /\ WeekPeriod("get_start_of_period") =>
          LET s == DateOfDmy(result)
              back == ToOrdinal(BaseOfCall) - ToOrdinal(s)
          IN  weekday(s) = 0 /\ back \in 0..6
    /\ WeekPeriod("get_end_of_period") =>
          LET e == DateOfDmy(result)
              ahead == ToOrdinal(e) - ToOrdinal(BaseOfCall)
              s == get_start_of_period(call.seen[1], "week", call.args.base_date_str)
          IN  /\ weekday(e) = 6 /\ ahead \in 0..6
              /\ IsDateText(s)
              /\ ToOrdinal(e) = ToOrdinal(DateOfDmy(s)) + 6
              /\ ToOrdinal(DateOfDmy(s)) <= ToOrdinal(BaseOfCall)

\* C21 witness: the week of Thursday 29-02-2024 ends on Sunday 03-03-2024
C21_Witness ==
    /\ WeekPeriod("get_end_of_period")
    /\ call.args.base_date_str = [str |-> "date", fields |-> <<29, 2, 2024>>]
    /\ result = strftime_dmY([year |-> 2024, month |-> 3, day |-> 3])

\* a month call of a period function whose base date parsed
MonthPeriod(op) ==
    /\ Returned(op)
    /\ call.args.period = "month"
    /\ ~IsExc(BaseOfCall)

\* C22: for every base date d the end of its month is the last calendar day
\* of d's own month (28, 29, 30 or 31, December included) and the start of
\* its month is day 1 of that month.
C22_MonthBounds ==
    /\ MonthPeriod("get_start_of_period") =>
          /\ ~IsExc(result)
          /\ result = strftime_dmY([year |-> BaseOfCall.year, month |-> BaseOfCall.month,
                                    day |-> 1])
    /\ MonthPeriod("get_end_of_period") =>
          /\ ~IsExc(result)
          /\ result = strftime_dmY([year |-> BaseOfCall.year, month |-> BaseOfCall.month,
                                    day |-> monthrange(BaseOfCall.year, BaseOfCall.month)])

DateFormatMessage == Message("Invalid base_date_str format. Please use DD-MM-YYYY.")

InvalidUnitMessage ==
    Message("Invalid unit. Please use 'days', 'weeks', 'months', or 'years'.")

InvalidWeekdayMessage == Message("Invalid weekday_name.")

InvalidDirectionMessage == Message("Invalid direction. Please use 'next' or 'last'.")

InvalidPeriodMessage == Message("Invalid period. Use 'week', 'month', or 'year'.")

ParameterMessages ==
    {InvalidUnitMessage, InvalidWeekdayMessage, InvalidDirectionMessage,
     InvalidPeriodMessage}

\* a call of one of the four functions that take a base date string
BaseDateCall ==
    /\ pc = "returned"
    /\ call.op \in {"get_date_with_offset", "get_date_of_weekday",
                    "get_start_of_period", "get_end_of_period"}

\* the base date string of the call does not parse as DD-MM-YYYY
Malformed == IsExc(BaseOfCall)

\* the message for the invalid parameter of the call, None when its
\* parameters are valid; in get_date_of_weekday the name comes before the
\* direction
ParameterError ==
    CASE call.op = "get_date_with_offset" ->
             IF call.args.unit \in {"days", "weeks", "months", "years"} THEN None
             ELSE InvalidUnitMessage
      [] call.op = "get_date_of_weekday" ->
             IF Lower(call.args.weekday_name) \notin WeekdayTokens
             THEN InvalidWeekdayMessage
             ELSE IF call.args.direction \notin {"last", "next"}
             THEN InvalidDirectionMessage
             ELSE None
      [] OTHER ->
             IF call.args.period \in {"week", "month", "year"} THEN None
             ELSE InvalidPeriodMessage

UsableDay(token) == token \in DOMAIN IntLiterals /\ IntLiterals[token] >= 1

\* C24: for specific_day_of_month a day token that is no day number (not
\* numeric, or an integer below 1) makes get_single_date return today's date
\* for every month offset, as a date and not as an error.
C24_UnusableDayGivesToday ==
    ( /\ Returned("get_single_date")
      /\ call.args.reference_point = "specific_day_of_month"
      /\ ~UsableDay(call.args.offset_unit) )
    => result = strftime_Ymd(call.seen[1])

\* C24 witness: day '0' of the month 12 months back, asked on 2024-02-29,
\* gives 2024-02-29
C24_Witness ==
    /\ Returned("get_single_date")
    /\ call.args = [reference_point |-> "specific_day_of_month", offset_value |-> -FarOffset, offset_unit |-> "0"]
    /\ call.seen[1] = [year |-> 2024, month |-> 2, day |-> 29]
    /\ result = strftime_Ymd([year |-> 2024, month |-> 2, day |-> 29])

\* the call is parse_time or search on a text holding "last N month(s)"
LastMonthsQuery ==
    /\ pc = "returned"
    /\ call.op \in {"parse_time", "search"}
    /\ time_pattern_match(call.args.query.words) > 0
    /\ TimeUnitOf[call.args.query.words[time_pattern_match(call.args.query.words) + 2]]
          = "month"

\* the N of the "last N month(s)" of the call
LastMonthsCount ==
    IntLiterals[call.args.query.words[time_pattern_match(call.args.query.words) + 1]]

\* C25: for "last N months" the range of parse_time and of /search starts
\* exactly N calendar months before today, on the same day of the month or
\* on the last day of a shorter month, and ends today.
C25_CalendarMonths ==
    LastMonthsQuery =>
       /\ ~IsExc(result)
       /\ result.is_range
       /\ result.time_range.end_date = strftime_dmY(call.seen[1])
       /\ MonthsFrom(DateOfDmy(result.time_range.start_date), call.seen[1],
                     -LastMonthsCount)

\* process_query was given a complete date_range that it does not send to
\* get_date_range
RoutedAway ==
    /\ Returned("process_query")
    /\ HasAll(call.args, <<"query_type", "parameters">>)
    /\ call.args.query_type = "date_range"
    /\ HasAll(call.args.parameters,
              <<"start_reference", "start_offset_value", "start_offset_unit",
                "end_reference", "end_offset_value", "end_offset_unit">>)
    /\ route_date_range(call.args.parameters).tool \in {"get_week_range", "get_month_range"}

\* C26: for every date_range that process_query sends to get_week_range or
\* to get_month_range, the start_date it returns is the start_date
\* get_date_range returns for the same six parameters (and it returns one
\* exactly when get_date_range does).
C26_RoutingKeepsStart ==
    RoutedAway =>
       LET direct == get_date_range(call.seen[1], call.seen[1], call.args.parameters)
       IN  /\ ("start_date" \in DOMAIN result) = ("start_date" \in DOMAIN direct)
           /\ "start_date" \in DOMAIN direct => result.start_date = direct.start_date

\* C27: the quarter ranges tile the calendar: the day after the end_date for
\* offset k is the start_date for offset k + 1, for every k the start is not
\* after the end, and the range for k = 0 contains today.
C27_QuartersTile ==
    (Returned("get_date_range_for_quarter") /\ ~IsExc(result))
    => LET s == ToOrdinal(DateOfDmy(result.start_date))
           e == ToOrdinal(DateOfDmy(result.end_date))
           next == get_date_range_for_quarter(call.seen[1], call.args.offset + 1)
       IN  /\ s <= e
           /\ ~IsExc(next)
           /\ ToOrdinal(DateOfDmy(next.start_date)) = e + 1
           /\ call.args.offset = 0 =>
                 (s <= ToOrdinal(call.seen[1]) /\ ToOrdinal(call.seen[1]) <= e)

\* C27 witness: on 2024-12-31 the range for k = 0 is 01-10-2024 to
\* 31-12-2024, and the next quarter starts on 01-01-2025
C27_Witness ==
    /\ Returned("get_date_range_for_quarter")
    /\ call.seen[1] = [year |-> 2024, month |-> 12, day |-> 31]
    /\ call.args.offset = 0
    /\ result.end_date = strftime_dmY(call.seen[1])
    /\ get_date_range_for_quarter(call.seen[1], 1).start_date
          = strftime_dmY([year |-> 2025, month |-> 1, day |-> 1])

\* C28: for specific_weekday only the sign of offset_value counts: every
\* negative value gives the date of value -1, every other value, 0 included,
\* the date of value +1, and the date is never more than 7 days from today.
C28_OnlySignMatters ==
    ( /\ Returned("get_single_date")
      /\ call.args.reference_point = "specific_weekday" )
    => /\ result = get_single_date(call.seen[1], "specific_weekday",
                                   IF call.args.offset_value < 0 THEN -1 ELSE 1,
                                   call.args.offset_unit)
       /\ IsDateText(result)
       /\ LET dist == ToOrdinal(DateOfYmd(result)) - ToOrdinal(call.seen[1])
          IN  IF call.args.offset_value < 0 THEN -dist \in 1..7 ELSE dist \in 1..7

\* C28 witness: "friday" with value 0 asked on Friday 2024-01-12 gives the
\* next Friday, 2024-01-19, as value 12 does
C28_Witness ==
    /\ Returned("get_single_date")
    /\ call.args = [reference_point |-> "specific_weekday", offset_value |-> 0, offset_unit |-> "friday"]
    /\ call.seen[1] = [year |-> 2024, month |-> 1, day |-> 12]
    /\ result = strftime_Ymd([year |-> 2024, month |-> 1, day |-> 19])
    /\ result = get_single_date(call.seen[1], "specific_weekday", FarOffset, "friday")

\* the arguments a tool cannot do without
RequiredArguments(name) ==
    CASE name = "get_single_date" -> <<"reference_point", "offset_value", "offset_unit">>
      [] name = "get_date_range" ->
             <<"start_reference", "start_offset_value", "start_offset_unit",
               "end_reference", "end_offset_value", "end_offset_unit">>
      [] name = "get_month_range" -> <<"month_name">>
      [] OTHER -> <<>>

KnownTool(name) ==
    name \in {"get_current_date", "get_single_date", "get_date_range",
              "get_month_range", "get_week_range"}

\* C29: handle_call_tool returns one text for every tool name and argument
\* dictionary and lets no exception out: a text beginning with "Error:" for
\* an unknown tool or a missing required argument, and for a known tool with
\* complete arguments the calculator's result, as plain text for
\* get_current_date and get_single_date and as JSON text for the range tools.
C29_AlwaysOneText ==
    Returned("handle_call_tool") =>
       LET name == call.args.name
           a == call.args.arguments
           t == call.seen[1]
       IN  /\ ~IsExc(result)
           /\ result.str \in {"date", "Error", "json"}
           /\ (~KnownTool(name) \/ ~HasAll(a, RequiredArguments(name)))
                 => result.str = "Error"
           /\ (KnownTool(name) /\ HasAll(a, RequiredArguments(name))) =>
                 result = CASE name = "get_current_date" -> strftime_Ymd(t)
                            [] name = "get_single_date" ->
                                   get_single_date(t, a.reference_point, a.offset_value,
                                                   a.offset_unit)
                            [] name = "get_date_range" -> json_dumps(get_date_range(t, t, a))
                            [] name = "get_month_range" ->
                                   json_dumps(get_month_range(t, a.month_name,
                                                  IF "year_offset" \in DOMAIN a
                                                  THEN a.year_offset ELSE 0))
                            [] name = "get_week_range" ->
                                   json_dumps(get_week_range(t,
                                                  IF "week_offset" \in DOMAIN a
                                                  THEN a.week_offset ELSE 0))

\* C29 witness: get_date_range with only the three start arguments returns
\* the text "Error: 'end_reference'"
C29_Witness ==
    /\ Returned("handle_call_tool")
    /\ call.args.name = "get_date_range"
    /\ call.args.arguments = [start_reference |-> "today", start_offset_value |-> 0, start_offset_unit |-> "days"]
    /\ result = [str |-> "Error", msg |-> "end_reference"]

(***************************************************************************)
(* process_query with its LLM completion requests (date_client.py lines    *)
(* 110-180): log records, in order, every completion request and every     *)
(* tool call of the query being processed.                                 *)
(***************************************************************************)
\* the exception a completion request raises (server down, grammar refused)
CompletionError == Raise("APIConnectionError", "Connection error.")

\* what process_query does when the given completion attempt raises e:
\* the first is caught and retried without grammar, the second is outside
\* every try block and leaves process_query
on_completion_error_caught(attempt, e) ==
    IF attempt = 1 THEN [pc |-> "second_request", result |-> None]
    ELSE [pc |-> "returned", result |-> [error |-> e.msg]]

on_completion_error(attempt, e) ==
    IF attempt = 1 THEN [pc |-> "second_request", result |-> None]
    ELSE [pc |-> "returned", result |-> e]

\* the tools process_query calls for a parsed response, in order
tools_called(parsed) ==
    IF ~HasAll(parsed, <<"query_type", "parameters">>) THEN <<>>
    ELSE IF parsed.query_type = "single_date" THEN <<"get_single_date">>
    ELSE IF parsed.query_type = "date_range"
    THEN LET route == route_date_range(parsed.parameters)
         IN  IF IsExc(route) THEN <<>> ELSE <<route.tool>>
    ELSE <<>>

\* the responses the LLM gives: each query type and each routing, a missing
\* parameter, an unknown query type, a missing query type
LLMResponses ==
    {[query_type |-> "single_date",
      parameters |-> [reference_point |-> "today", offset_value |-> -1,
                      offset_unit |-> "days"]],
     [query_type |-> "single_date",
      parameters |-> [reference_point |-> "today", offset_value |-> 0]],
     [query_type |-> "date_range",
      parameters |-> RangeQuery([reference |-> "start_of_week", offset_value |-> -1,
                                 offset_unit |-> "weeks"],
                                [reference |-> "start_of_week", offset_value |-> -1,
                                 offset_unit |-> "weeks"])],
     [query_type |-> "date_range",
      parameters |-> RangeQuery([reference |-> "specific_month", offset_value |-> 0,
                                 offset_unit |-> "february"],
                                [reference |-> "specific_month", offset_value |-> 0,
                                 offset_unit |-> "february"])],
     [query_type |-> "date_range",
      parameters |-> RangeQuery([reference |-> "start_of_month", offset_value |-> -1,
                                 offset_unit |-> "months"],
                                [reference |-> "start_of_month", offset_value |-> 0,
                                 offset_unit |-> "months"])],
     [query_type |-> "date_range",
      parameters |-> [start_reference |-> "start_of_week",
                      end_reference |-> "start_of_week"]],
     [query_type |-> "time_range", parameters |-> [part_of_day |-> "morning"]],
     [parameters |-> [reference_point |-> "today"]]}

Completion(with_grammar, ok) ==
    [event |-> "completion", grammar |-> with_grammar, ok |-> ok]

ToolCall(name) == [event |-> "tool", name |-> name]

\* process_query is entered; grammar is the module's GBNF text, empty when
\* the file was not found
BeginProcessQuery ==
    /\ pc = "idle"
    /\ \E grammar \in BOOLEAN :
          call' = [op |-> "process_query", args |-> [grammar |-> grammar],
                   seen |-> <<today>>]
    /\ pc' = "first_request"
    /\ log' = <<>>
    /\ UNCHANGED <<today, result, pending, prev>>

\* lines 113-122: the first completion request answers
FirstCompletionSucceeds ==
    /\ pc = "first_request"
    /\ \E response \in LLMResponses : pending' = response
    /\ log' = Append(log, Completion(call.args.grammar, TRUE))
    /\ pc' = "parse"
    /\ UNCHANGED <<today, call, result, prev>>

\* lines 123-124: the first completion request raises
FirstCompletionRaises ==
    /\ pc = "first_request"
    /\ log' = Append(log, Completion(call.args.grammar, FALSE))
    /\ pc' = on_completion_error(1, CompletionError).pc
    /\ result' = on_completion_error(1, CompletionError).result
    /\ UNCHANGED <<today, call, pending, prev>>

\* lines 125-133: the request without grammar answers
SecondCompletionSucceeds ==
    /\ pc = "second_request"
    /\ \E response \in LLMResponses : pending' = response
    /\ log' = Append(log, Completion(FALSE, TRUE))
    /\ pc' = "parse"
    /\ UNCHANGED <<today, call, result, prev>>

\* lines 125-133: the request without grammar raises
SecondCompletionRaises ==
    /\ pc = "second_request"
    /\ log' = Append(log, Completion(FALSE, FALSE))
    /\ pc' = on_completion_error(2, CompletionError).pc
    /\ result' = on_completion_error(2, CompletionError).result
    /\ UNCHANGED <<today, call, pending, prev>>

\* lines 138-180: the response is parsed and the tool, if any, is called
CallTools ==
    /\ pc = "parse"
    /\ result' = process_query(today, pending)
    /\ log' = log \o [i \in 1..Len(tools_called(pending)) |->
                         ToolCall(tools_called(pending)[i])]
    /\ call' = [call EXCEPT !.args = [grammar |-> call.args.grammar,
                                      response |-> pending]]
    /\ pending' = None
    /\ pc' = "returned"
    /\ UNCHANGED <<today, prev>>

NextLLM ==
    \/ BeginProcessQuery
    \/ FirstCompletionSucceeds
    \/ FirstCompletionRaises
    \/ SecondCompletionSucceeds
    \/ SecondCompletionRaises
    \/ CallTools
    \/ Return

SpecLLM == Init /\ [][NextLLM]_vars

\* the positions of the completion requests in the log
CompletionsAt == {i \in 1..Len(log) : log[i].event = "completion"}

\* C30: process_query issues at most two completion requests per query, the
\* second one without the grammar and only after the first one raised; no
\* tool is called before a completion succeeded; and when the second request
\* raises too, the exception leaves process_query instead of coming back as
\* an {"error": ...} result.
C30_AtMostTwoCompletions ==
    /\ Cardinality(CompletionsAt) <= 2
    /\ \A i \in CompletionsAt :
          (\E j \in CompletionsAt : j < i) =>
             /\ ~log[i].grammar
             /\ \A j \in CompletionsAt : j < i => ~log[j].ok
    /\ \A i \in 1..Len(log) :
          log[i].event = "tool" =>
             \E j \in CompletionsAt : j < i /\ log[j].ok
    /\ (pc = "returned" /\ Cardinality(CompletionsAt) = 2
          /\ \A i \in CompletionsAt : ~log[i].ok)
       => /\ IsExc(result)
          /\ "error" \notin DOMAIN result
          /\ \A i \in 1..Len(log) : log[i].event # "tool"

\* C30 witness: both completion requests raised and process_query ended
\* with the second request's exception
C30_Witness ==
    /\ pc = "returned"
    /\ call.op = "process_query"
    /\ log = <<Completion(TRUE, FALSE), Completion(FALSE, FALSE)>>
    /\ result = CompletionError

====
